---- MODULE Spec2Model ----
(***************************************************************************)
(* Accounts, authentication tokens and authorization of the ride-hailing   *)
(* backend: api/route/auth.py, api/route/account.py, api/routes.py and     *)
(* the User declaration of api/models.py.                                  *)
(*                                                                         *)
(* Strings that the code converts (emails, passwords) are sequences of     *)
(* one-character strings, so that lower(), strip() and the e-mail          *)
(* validator are computed character by character.                          *)
(***************************************************************************)
EXTENDS Integers, Sequences, FiniteSets, TLC

VARIABLES
    users,      \* rows of the users table
    next_id,    \* next value of the users.id sequence
    inflight,   \* register requests between their existence check and commit
    now,        \* wall clock, in seconds
    outbox,     \* messages handed to mail.send
    minted,     \* signed tokens that have been issued (by any serializer)
    env,        \* deployment: config keys and optional helpers that exist
    last,       \* the last request served and its response
    accepted,   \* history: the tokens reset_password has accepted, in order
                \* (no handler reads it)
    roles_permissions,  \* rows of the roles_permissions association table
    rides,      \* rows of the rides table
    transactions,   \* rows of the transactions table
    sessions    \* history: the session tokens that clients hold, each with the
                \* id of the user it was issued to (no handler reads it)

vars == <<users, next_id, inflight, now, outbox, minted, env, last, accepted,
          roles_permissions, rides, transactions, sessions>>

\* the tables that the account and token handlers never touch, and what the
\* clients hold
catalog == <<roles_permissions, rides, transactions, sessions>>

-----------------------------------------------------------------------------
(* Bounds of the model *)

MaxUsers == 2
MaxInflight == 2
MaxResetTokens == 1
MaxResets == 2

-----------------------------------------------------------------------------
(* str.lower, str.strip *)

LowerChar(c) ==
    CASE c = "A" -> "a"
      [] c = "B" -> "b"
      [] c = "C" -> "c"
      [] OTHER -> c

Lower(s) == [i \in DOMAIN s |-> LowerChar(s[i])]

IsSpace(c) == c \in {" ", "\t", "\n"}

RECURSIVE LStrip(_)
LStrip(s) == IF s = <<>> THEN s
             ELSE IF IsSpace(Head(s)) THEN LStrip(Tail(s)) ELSE s

RECURSIVE RStrip(_)
RStrip(s) == IF s = <<>> THEN s
             ELSE IF IsSpace(s[Len(s)]) THEN RStrip(SubSeq(s, 1, Len(s) - 1)) ELSE s

Strip(s) == RStrip(LStrip(s))

-----------------------------------------------------------------------------
(* marshmallow fields.Email: validate.Email splits at the last "@", matches *)
(* the user part against a dot-atom and the domain against dotted labels    *)
(* ending in a top-level label of at least two characters.                  *)

Letters == {"a", "b", "c", "A", "B", "C"}

AtPositions(s) == {i \in DOMAIN s : s[i] = "@"}

LastAt(s) == CHOOSE i \in AtPositions(s) : \A j \in AtPositions(s) : j <= i

UserPartOk(u) ==
    /\ Len(u) > 0
    /\ \A i \in DOMAIN u : u[i] \in Letters \cup {"."}
    /\ u[1] # "." /\ u[Len(u)] # "."
    /\ \A i \in 1..(Len(u) - 1) : ~(u[i] = "." /\ u[i + 1] = ".")

DomainPartOk(d) ==
    /\ Len(d) > 0
    /\ \A i \in DOMAIN d : d[i] \in Letters \cup {"."}
    /\ d[1] # "."
    /\ \A i \in 1..(Len(d) - 1) : ~(d[i] = "." /\ d[i + 1] = ".")
    /\ \E k \in DOMAIN d :
          /\ d[k] = "."
          /\ Len(d) - k >= 2
          /\ \A i \in (k + 1)..Len(d) : d[i] # "."

IsEmail(s) ==
    /\ s # <<>>
    /\ AtPositions(s) # {}
    /\ UserPartOk(SubSeq(s, 1, LastAt(s) - 1))
    /\ DomainPartOk(SubSeq(s, LastAt(s) + 1, Len(s)))

-----------------------------------------------------------------------------
(* Request inputs *)

\* a field the request does not carry
Absent == <<"(absent)">>

EmailA      == <<"a", "@", "b", ".", "c", "c">>
EmailAUpper == <<"A", "@", "B", ".", "c", "c">>
EmailASpace == <<"a", "@", "b", ".", "c", "c", " ">>
EmailB      == <<"b", "@", "b", ".", "c", "c">>
NotAnEmail  == <<"a", "b">>

EmailInputs == {EmailA, EmailAUpper, EmailASpace, EmailB, NotAnEmail}

Secret1 == <<"s", "e", "c", "r", "e", "t", "1">>
Secret2 == <<"s", "e", "c", "r", "e", "t", "2">>
Short   == <<"a", "b", "c">>

PasswordInputs == {Secret1, Secret2}

\* what a form may carry as a new password and as its confirmation
NewPasswordInputs == {Secret1, Short}
ConfirmationInputs == {Secret1, Secret2}

MarketingInputs == {FALSE}

\* secrets.token_urlsafe(16): a value no request carries
RandomPassword == <<"r", "a", "n", "d", "o", "m">>

NameAna  == <<"A", "n", "a">>
NameBo   == <<"B", "o">>
NameB    == <<"B">>

NameInputs == {NameAna}

RoleInputs == {"client"}

-----------------------------------------------------------------------------
(* werkzeug.security *)

generate_password_hash(password) == [method |-> "pbkdf2", of |-> password]

\* a check that accepts every password
check_password_any(pwhash, password) == TRUE

check_password_hash(pwhash, password) ==
    /\ pwhash.method = "pbkdf2"
    /\ pwhash.of = password

-----------------------------------------------------------------------------
(* itsdangerous.URLSafeTimedSerializer under the application's SECRET_KEY:  *)
(* a token carries its payload, its timestamp and a signature made with the *)
(* key derived from the salt.                                               *)

EMAIL_VERIFY_SALT == "email-verify"
RESET_PWD_SALT == "password-reset"

Sign(salt, uid, ts) == <<salt, uid, ts>>

\* s.dumps({"uid": user_id})
Dumps(salt, uid, ts) == [uid |-> uid, ts |-> ts, sig |-> Sign(salt, uid, ts)]

NoSigned == [uid |-> 0, ts |-> 0, sig |-> <<>>]

\* s.loads(token, max_age=max_age) at time t: the payload's uid, or the
\* exception raised
Loads(salt, token, max_age, t) ==
    IF token.sig # Sign(salt, token.uid, token.ts)
    THEN [raised |-> "BadSignature", uid |-> 0]
    ELSE IF t - token.ts > max_age
    THEN [raised |-> "SignatureExpired", uid |-> 0]
    ELSE [raised |-> "", uid |-> token.uid]

-----------------------------------------------------------------------------
(* The users table *)

NoUser == [id |-> 0]

\* User.query.filter_by(email=email).first()
FindByEmail(email) ==
    IF \E u \in users : u.email = email
    THEN CHOOSE u \in users : u.email = email
    ELSE NoUser

\* User.query.get(id)
GetUser(id) ==
    IF \E u \in users : u.id = id
    THEN CHOOSE u \in users : u.id = id
    ELSE NoUser

\* a users table whose email column is not unique
UniqueEmailUnchecked(table, email) == TRUE

\* users.email is declared unique=True: the store compares the stored strings
UniqueEmailOk(table, email) == \A u \in table : u.email # email

\* db.session.add(user); db.session.commit(): the row is stored unless the
\* unique constraint on email refuses it
CanInsert(email) == UniqueEmailOk(users, email)

NewUser(name, email, pwhash, role, roles, marketing) ==
    [id |-> next_id, name |-> name, email |-> email, password |-> pwhash,
     role |-> role, type |-> "user", roles |-> roles, is_active |-> TRUE,
     marketing_allowed |-> marketing, email_verified |-> FALSE,
     vehicle_id |-> 0]

\* user.assign_role("cliente") when the User class has the method
assign_role(roles, name) == IF env.role_system THEN roles \cup {name} ELSE roles

\* user.has_role(names) guarded by callable(getattr(user, "has_role", None))
has_role(user, names) == user.roles \cap names # {}

-----------------------------------------------------------------------------
(* Token helpers of auth.py *)

VERIFY_MAX_AGE == 86400
RESET_MAX_AGE == 3600

create_email_verification_token(user_id, t) == Dumps(EMAIL_VERIFY_SALT, user_id, t)

\* a verifier that loads with the other purpose's salt
verify_email_with_reset_salt(token, t) ==
    LET data == Loads(RESET_PWD_SALT, token, VERIFY_MAX_AGE, t)
    IN  IF data.raised # "" THEN NoUser ELSE GetUser(data.uid)

verify_email_verification_token(token, t) ==
    LET data == Loads(EMAIL_VERIFY_SALT, token, VERIFY_MAX_AGE, t)
    IN  IF data.raised # "" THEN NoUser ELSE GetUser(data.uid)

\* api.utils.token_utils.generate_reset_token
generate_reset_token(user_id, t) == Dumps(RESET_PWD_SALT, user_id, t)

\* api.utils.token_utils.verify_reset_token
verify_reset_token(token, t) ==
    LET data == Loads(RESET_PWD_SALT, token, RESET_MAX_AGE, t)
    IN  IF data.raised # "" THEN NoUser ELSE GetUser(data.uid)

create_password_reset_token(user_id, t) ==
    IF env.token_utils THEN generate_reset_token(user_id, t)
    ELSE Dumps(RESET_PWD_SALT, user_id, t)

\* a local verifier that does not pass max_age to loads
verify_reset_token_ignoring_age(token, t) ==
    LET data == Loads(RESET_PWD_SALT, token, RESET_MAX_AGE, token.ts)
    IN  IF data.raised # "" THEN NoUser ELSE GetUser(data.uid)

verify_password_reset_token_local(token, t) ==
    LET data == Loads(RESET_PWD_SALT, token, RESET_MAX_AGE, t)
    IN  IF data.raised # "" THEN NoUser ELSE GetUser(data.uid)

\* a verifier that refuses a token that has already reset a password
ResetVerifierSingleUse(token, t) ==
    IF \E i \in DOMAIN accepted : accepted[i] = token THEN NoUser
    ELSE verify_reset_token(token, t)

\* verify_reset_token(token) if callable(verify_reset_token)
\* else verify_password_reset_token_local(token)
ResetVerifier(token, t) ==
    IF env.token_utils THEN verify_reset_token(token, t)
    ELSE verify_password_reset_token_local(token, t)

-----------------------------------------------------------------------------
(* Responses *)

NoToken == [email |-> <<>>]

\* api.utils.jwt_handler.create_token(email)
create_token(email) == [email |-> email]

NoIdentity == [v |-> 0, str |-> FALSE]

\* what the handler returned at `line`, with the request it answered
Reply(op, line, status, msg) ==
    [op |-> op, line |-> line, status |-> status, msg |-> msg,
     uid |-> 0, errors |-> {}, token |-> NoToken,
     who |-> NoIdentity, email |-> Absent, password |-> Absent,
     confirmation |-> Absent, presented |-> NoSigned, permissions |-> <<>>,
     mailchimp |-> "none", name |-> Absent, json |-> {}, credential |-> "none",
     bearer |-> [scheme |-> "none", token |-> [email |-> <<>>, raises |-> ""]]]

\* the part of a response the client sees
Body(r) == [status |-> r.status, msg |-> r.msg, uid |-> r.uid,
            errors |-> r.errors, token |-> r.token, permissions |-> r.permissions]

NoReq == [email |-> <<>>]

Slots == 1..MaxInflight

-----------------------------------------------------------------------------
(* What a response shows of a user: the objects of its JSON body *)

\* "user": {"id", "name", "email", "role"} of login, register, login_google
\* and the body of profile; role is get_primary_role() or None
AuthUser(user) == [id |-> user.id, name |-> user.name, email |-> user.email]

\* a serialize that includes the password column
serialize_with_password(user) ==
    [id |-> user.id, name |-> user.name, email |-> user.email, role |-> user.role,
     is_active |-> user.is_active, marketing_allowed |-> user.marketing_allowed,
     type |-> user.type, password |-> user.password]

\* User.serialize: the dict of lines 72-81
serialize(user) ==
    [id |-> user.id, name |-> user.name, email |-> user.email, role |-> user.role,
     is_active |-> user.is_active, marketing_allowed |-> user.marketing_allowed,
     type |-> user.type]

\* user_schema.dump: the fields UserSchema declares
SchemaDump(user) ==
    [id |-> user.id, name |-> user.name, email |-> user.email,
     marketing_allowed |-> user.marketing_allowed, roles |-> user.roles]

-----------------------------------------------------------------------------
(* POST /auth/register *)

\* register_schema.load: the fields RegisterSchema refuses; the schema-level
\* confirmation check runs only when no field failed
RegisterFieldErrors(name, email, password, confirmation) ==
    (IF name = Absent THEN {"name"} ELSE {})
    \cup (IF email = Absent \/ ~IsEmail(email) THEN {"email"} ELSE {})
    \cup (IF password = Absent \/ Len(password) < 6 THEN {"password"} ELSE {})
    \cup (IF confirmation = Absent THEN {"password_confirmation"} ELSE {})

RegisterErrors(name, email, password, confirmation) ==
    IF RegisterFieldErrors(name, email, password, confirmation) # {}
    THEN RegisterFieldErrors(name, email, password, confirmation)
    ELSE IF password # confirmation THEN {"password_confirmation"} ELSE {}

\* the email register looks up and stores
RegisterEmail(email) == Lower(email)

\* lines 160-168: validation and the existence check
RegisterBegin(slot, name, email, password, confirmation, marketing) ==
    /\ inflight[slot] = NoReq
    /\ \A t \in Slots : t < slot => inflight[t] # NoReq
    /\ IF RegisterErrors(name, email, password, confirmation) # {}
       THEN /\ last' = [Reply("register", 164, 422, "Validation failed") EXCEPT
                          !.errors = RegisterErrors(name, email, password, confirmation),
                          !.email = email, !.password = password,
                          !.confirmation = confirmation]
            /\ UNCHANGED inflight
       ELSE IF FindByEmail(RegisterEmail(email)) # NoUser
       THEN /\ last' = [Reply("register", 168, 400, "Email already registered") EXCEPT
                          !.email = email, !.password = password,
                          !.confirmation = confirmation]
            /\ UNCHANGED inflight
       ELSE /\ inflight' = [inflight EXCEPT ![slot] =
                               [email |-> RegisterEmail(email), given |-> email,
                                name |-> name, password |-> password,
                                marketing |-> marketing]]
            /\ last' = Reply("register_check", 167, 0, "")
    /\ UNCHANGED <<users, next_id, now, outbox, minted, env, catalog, accepted>>

\* what register answers when the commit of the new row raises
RegisterCommitFailure == Reply("register", 182, 500, "Could not create user")

\* lines 170-208: hash, insert, commit, default role, verification mail, token
RegisterCommit(slot, mailOk) ==
    /\ inflight[slot] # NoReq
    /\ LET req == inflight[slot]
           new == NewUser(req.name, req.email,
                          generate_password_hash(req.password),
                          "", assign_role({}, "cliente"), req.marketing)
           tok == create_email_verification_token(new.id, now)
       IN  IF CanInsert(req.email)
           THEN /\ Cardinality(users) < MaxUsers
                /\ users' = users \cup {new}
                /\ next_id' = next_id + 1
                /\ minted' = minted \cup {tok}
                /\ outbox' = IF mailOk
                             THEN outbox \cup {[to |-> new.email, kind |-> "verify",
                                                token |-> tok]}
                             ELSE outbox
                /\ last' = [Reply("register", 208, 201, "User registered successfully")
                              EXCEPT !.uid = new.id, !.email = req.given,
                                     !.password = req.password,
                                     !.confirmation = req.password,
                                     !.token = create_token(new.email),
                                     !.json = {AuthUser(new)}]
           ELSE /\ mailOk
                /\ UNCHANGED <<users, next_id, minted, outbox>>
                /\ last' = [RegisterCommitFailure EXCEPT
                              !.email = req.given, !.password = req.password,
                              !.confirmation = req.password]
    /\ inflight' = [inflight EXCEPT ![slot] = NoReq]
    /\ UNCHANGED <<now, env, catalog, accepted>>

-----------------------------------------------------------------------------
(* POST /auth/login *)

\* login_schema.load: LoginSchema
LoginErrors(email, password) ==
    (IF email = Absent \/ ~IsEmail(email) THEN {"email"} ELSE {})
    \cup (IF password = Absent THEN {"password"} ELSE {})

\* the email login looks up
LoginEmail(email) == Lower(email)

\* a login that tells an unknown email from a wrong password
LoginUserNotFound == Reply("login", 143, 404, "User not found")

\* what login answers when no user has the email
LoginUnknownEmail == Reply("login", 143, 401, "Unauthorized")

Login(email, password) ==
    /\ IF LoginErrors(email, password) # {}
       THEN last' = [Reply("login", 138, 422, "Validation failed") EXCEPT
                       !.errors = LoginErrors(email, password),
                       !.email = email, !.password = password]
       ELSE LET user == FindByEmail(LoginEmail(email))
            IN  IF user = NoUser
                THEN last' = [LoginUnknownEmail EXCEPT
                                !.email = email, !.password = password]
                ELSE IF ~check_password_hash(user.password, password)
                THEN last' = [Reply("login", 143, 401, "Unauthorized") EXCEPT
                                !.email = email, !.password = password]
                ELSE last' = [Reply("login", 155, 200, "Login successful") EXCEPT
                                !.uid = user.id, !.email = email,
                                !.password = password,
                                !.token = create_token(user.email),
                                !.json = {AuthUser(user)}]
    /\ UNCHANGED <<users, next_id, inflight, now, outbox, minted, env, catalog, accepted>>

-----------------------------------------------------------------------------
(* POST /auth/login_google *)

GoogleCredentials ==
    {[kind |-> "absent", email |-> Absent], [kind |-> "forged", email |-> Absent],
     [kind |-> "verified", email |-> Absent]}
    \cup {[kind |-> "verified", email |-> e] : e \in {EmailAUpper}}

LoginGoogle(credential, marketing) ==
    /\ IF credential.kind = "absent"
       THEN /\ last' = [Reply("login_google", 217, 422, "Validation failed") EXCEPT
                          !.errors = {"credential"}]
            /\ UNCHANGED <<users, next_id>>
       ELSE IF ~env.google_client_id
       THEN /\ last' = Reply("login_google", 223, 500,
                             "Server misconfigured: GOOGLE_CLIENT_ID missing")
            /\ UNCHANGED <<users, next_id>>
       ELSE IF credential.kind = "forged"
       THEN /\ last' = Reply("login_google", 270, 401, "Invalid token")
            /\ UNCHANGED <<users, next_id>>
       ELSE IF credential.email = Absent
       THEN /\ last' = Reply("login_google", 232, 401, "Invalid token: email missing")
            /\ UNCHANGED <<users, next_id>>
       ELSE LET email == Lower(credential.email)
                found == FindByEmail(email)
                new   == NewUser(NameAna, email,
                                 generate_password_hash(RandomPassword),
                                 "", assign_role({}, "cliente"), marketing)
                old   == [found EXCEPT !.roles = assign_role(found.roles, "cliente")]
            IN  IF found = NoUser
                THEN /\ Cardinality(users) < MaxUsers
                     /\ users' = users \cup {new}
                     /\ next_id' = next_id + 1
                     /\ last' = [Reply("login_google", 267, 200, "Success") EXCEPT
                                   !.uid = new.id, !.email = credential.email,
                                   !.token = create_token(new.email),
                                   !.json = {AuthUser(new)}]
                ELSE /\ users' = (users \ {found}) \cup {old}
                     /\ UNCHANGED next_id
                     /\ last' = [Reply("login_google", 267, 200, "Success") EXCEPT
                                   !.uid = old.id, !.email = credential.email,
                                   !.token = create_token(old.email),
                                   !.json = {AuthUser(old)}]
    /\ UNCHANGED <<inflight, now, outbox, minted, env, catalog, accepted>>

-----------------------------------------------------------------------------
(* User.after_save_hook: the mailing-list sync after an insert or update *)

\* what the Mailchimp call of a request does: it succeeds, os.environ lacks a
\* MAILCHIMP_ key, or the API call raises
MailchimpOutcomes == {"ok", "KeyError", "MailChimpError"}

\* a hook whose try has no except
after_save_hook_unguarded(target, outcome) ==
    IF ~env.development /\ target.email # <<>>
    THEN IF outcome = "ok" THEN "synced" ELSE "raised"
    ELSE "skipped"

\* what the hook leaves to the flush that called it: "raised" when an
\* exception leaves the hook
after_save_hook(target, outcome) ==
    IF ~env.development /\ target.email # <<>>
    THEN IF outcome = "ok" THEN "synced" ELSE "logged"
    ELSE "skipped"

-----------------------------------------------------------------------------
(* POST /api/users *)

\* the email create_user looks up and stores: the request's, as given
CreateUserEmail(email) == email

CreateUser(name, email, password, role, outcome) ==
    /\ IF name = Absent \/ email = Absent \/ password = Absent
       THEN /\ last' = [Reply("create_user", 67, 400, "Missing required fields") EXCEPT
                          !.email = email, !.password = password]
            /\ UNCHANGED <<users, next_id>>
       ELSE IF FindByEmail(CreateUserEmail(email)) # NoUser
       THEN /\ last' = [Reply("create_user", 70, 400, "Email already exists") EXCEPT
                          !.email = email, !.password = password]
            /\ UNCHANGED <<users, next_id>>
       ELSE LET new == NewUser(name, CreateUserEmail(email),
                               generate_password_hash(password), role, {}, FALSE)
            IN  /\ Cardinality(users) < MaxUsers
                /\ IF after_save_hook(new, outcome) = "raised"
                   THEN /\ UNCHANGED <<users, next_id>>
                        /\ last' = [Reply("create_user", 81, 500, "Internal Server Error")
                                      EXCEPT !.email = email, !.password = password,
                                             !.mailchimp = outcome]
                   ELSE /\ users' = users \cup {new}
                        /\ next_id' = next_id + 1
                        /\ last' = [Reply("create_user", 83, 201, "Created") EXCEPT
                                      !.uid = new.id, !.email = email,
                                      !.password = password, !.mailchimp = outcome,
                                      !.json = {serialize(new)}]
    /\ UNCHANGED <<inflight, now, outbox, minted, env, catalog, accepted>>

-----------------------------------------------------------------------------
(* PUT/PATCH /api/account/edit *)

\* UserSchema._normalize (pre_load)
PreLoadEmail(email) == IF email = Absent THEN Absent ELSE Lower(Strip(email))
PreLoadName(name) == IF name = Absent THEN Absent ELSE Strip(name)

\* user_schema.load(payload, partial=True): the fields UserSchema refuses
EditErrors(name, email) ==
    (IF name # Absent /\ (Len(PreLoadName(name)) < 2 \/ Len(PreLoadName(name)) > 100)
     THEN {"name"} ELSE {})
    \cup (IF email # Absent /\ (~IsEmail(PreLoadEmail(email)) \/ Len(PreLoadEmail(email)) > 255)
          THEN {"email"} ELSE {})

\* _normalize_email
NormalizeEmail(email) == Strip(Lower(email))

EditAccount(id, name, email) ==
    /\ LET user == GetUser(id)
           new_email == IF email = Absent THEN user.email
                        ELSE NormalizeEmail(PreLoadEmail(email))
           new_name == IF name = Absent THEN user.name ELSE PreLoadName(name)
           edited == [user EXCEPT !.name = new_name, !.email = new_email]
           who == [v |-> id, str |-> FALSE]
       IN  IF user = NoUser
           THEN /\ last' = [Reply("edit_account", 36, 404, "Not Found") EXCEPT !.who = who]
                /\ UNCHANGED users
           ELSE IF name = Absent /\ email = Absent
           THEN /\ last' = [Reply("edit_account", 45, 400, "No editable fields provided")
                              EXCEPT !.who = who]
                /\ UNCHANGED users
           ELSE IF EditErrors(name, email) # {}
           THEN /\ last' = [Reply("edit_account", 51, 422, "Validation failed") EXCEPT
                              !.who = who, !.errors = EditErrors(name, email),
                              !.email = email]
                /\ UNCHANGED users
           ELSE IF new_email # user.email
                   /\ \E o \in users : o.email = new_email /\ o.id # user.id
           THEN /\ last' = [Reply("edit_account", 65, 400, "Email already in use") EXCEPT
                              !.who = who, !.email = email]
                /\ UNCHANGED users
           ELSE IF ~UniqueEmailOk(users \ {user}, new_email)
           THEN /\ last' = [Reply("edit_account", 73, 400, "Email already in use") EXCEPT
                              !.who = who, !.email = email]
                /\ UNCHANGED users
           ELSE /\ users' = (users \ {user}) \cup {edited}
                /\ last' = [Reply("edit_account", 81, 200, "Success") EXCEPT
                              !.who = who, !.uid = user.id, !.email = email,
                              !.json = {SchemaDump(edited)}]
    /\ UNCHANGED <<next_id, inflight, now, outbox, minted, env, catalog, accepted>>

-----------------------------------------------------------------------------
(* POST /auth/password/request *)

EmailC == <<"c", "@", "b", ".", "c", "c">>
Empty  == <<>>
Blank  == <<" ">>

\* the response the handler gives on every path
GenericMessage == "Si el email existe, enviaremos instrucciones"

\* a reset request that reports a failed delivery
MailFailureReported == Reply("request_password_reset", 368, 500, "Mail error")

\* what the handler answers when sending the mail raises
MailFailureReply == Reply("request_password_reset", 368, 200, GenericMessage)

ResetTokens(tokens) == {k \in tokens : k.sig[1] = RESET_PWD_SALT}

RequestPasswordReset(email, mailOk) ==
    /\ LET given == IF email = Absent THEN Empty ELSE email
           normal == Strip(Lower(given))
           user == FindByEmail(normal)
           tok == create_password_reset_token(user.id, now)
       IN  IF normal = Empty
           THEN /\ last' = [Reply("request_password_reset", 346, 200, GenericMessage)
                              EXCEPT !.email = email]
                /\ mailOk
                /\ UNCHANGED <<minted, outbox>>
           ELSE IF user = NoUser
           THEN /\ last' = [Reply("request_password_reset", 350, 200, GenericMessage)
                              EXCEPT !.email = email]
                /\ mailOk
                /\ UNCHANGED <<minted, outbox>>
           ELSE /\ tok \in minted \/ Cardinality(ResetTokens(minted)) < MaxResetTokens
                /\ minted' = minted \cup {tok}
                /\ IF mailOk
                   THEN /\ outbox' = outbox \cup {[to |-> user.email, kind |-> "reset",
                                                   token |-> tok]}
                        /\ last' = [Reply("request_password_reset", 370, 200,
                                          GenericMessage) EXCEPT !.email = email]
                   ELSE /\ UNCHANGED outbox
                        /\ last' = [MailFailureReply EXCEPT !.email = email]
    /\ UNCHANGED <<users, next_id, inflight, now, env, catalog, accepted>>

-----------------------------------------------------------------------------
(* GET /auth/password/reset/<token> *)

ShowResetForm(token, authenticated) ==
    /\ LET user == ResetVerifier(token, now)
       IN  IF authenticated
           THEN last' = [Reply("show_reset_form", 297, 302, "main.index") EXCEPT
                           !.presented = token]
           ELSE IF user = NoUser
           THEN last' = [Reply("show_reset_form", 302, 302, "auth.request_password_reset")
                           EXCEPT !.presented = token]
           ELSE last' = [Reply("show_reset_form", 304, 200, "auth/password_reset_form.html")
                           EXCEPT !.presented = token, !.uid = user.id]
    /\ UNCHANGED <<users, next_id, inflight, now, outbox, minted, env, catalog, accepted>>

-----------------------------------------------------------------------------
(* POST /auth/password/reset *)

\* password_reset_schema.load: PasswordResetSchema; its
\* validate_password_confirmation is not registered as a validator
ResetErrors(token, password, confirmation) ==
    (IF token = NoSigned THEN {"token"} ELSE {})
    \cup (IF password = Absent \/ Len(password) < 6 THEN {"password"} ELSE {})
    \cup (IF confirmation = Absent THEN {"password_confirmation"} ELSE {})

\* a role check that lets a user through when the User class has no has_role
PrivilegedFailOpen(user, names) == ~env.role_system \/ has_role(user, names)

\* callable(getattr(user, "has_role", None)) and user.has_role(names)
Privileged(user, names) == env.role_system /\ has_role(user, names)

ResetPassword(token, password, confirmation, authenticated) ==
    /\ LET user == ResetVerifier(token, now)
           changed == [user EXCEPT !.password = generate_password_hash(password)]
       IN  IF authenticated
           THEN /\ last' = [Reply("reset_password", 310, 302, "main.index") EXCEPT
                              !.presented = token, !.password = password,
                              !.confirmation = confirmation]
                /\ UNCHANGED <<users, accepted>>
           ELSE IF ResetErrors(token, password, confirmation) # {}
           THEN /\ last' = [Reply("reset_password", 316, 422, "Validation failed") EXCEPT
                              !.errors = ResetErrors(token, password, confirmation),
                              !.presented = token, !.password = password,
                              !.confirmation = confirmation]
                /\ UNCHANGED <<users, accepted>>
           ELSE IF user = NoUser
           THEN /\ last' = [Reply("reset_password", 323, 400, "Token invalido o expirado")
                              EXCEPT !.presented = token, !.password = password,
                                     !.confirmation = confirmation]
                /\ UNCHANGED <<users, accepted>>
           ELSE /\ Len(accepted) < MaxResets
                /\ accepted' = Append(accepted, token)
                /\ users' = (users \ {user}) \cup {changed}
                /\ IF ~Privileged(user, {"editor", "admin"})
                   THEN last' = [Reply("reset_password", 333, 302, "/password/reset/complete")
                                   EXCEPT !.presented = token, !.password = password,
                                          !.confirmation = confirmation, !.uid = user.id]
                   ELSE last' = [Reply("reset_password", 335, 302, "admin.dashboard")
                                   EXCEPT !.presented = token, !.password = password,
                                          !.confirmation = confirmation, !.uid = user.id]
    /\ UNCHANGED <<next_id, inflight, now, outbox, minted, env, catalog>>

-----------------------------------------------------------------------------
(* GET /auth/verify *)

VerifyEmail(token) ==
    /\ LET user == verify_email_verification_token(token, now)
           verified == [user EXCEPT !.email_verified = TRUE]
       IN  IF user = NoUser
           THEN /\ last' = [Reply("verify_email", 379, 302, "danger") EXCEPT
                              !.presented = token]
                /\ UNCHANGED users
           ELSE /\ users' = IF env.verified_attr
                            THEN (users \ {user}) \cup {verified} ELSE users
                /\ last' = [Reply("verify_email", 397, 302, "success") EXCEPT
                              !.presented = token, !.uid = user.id]
    /\ UNCHANGED <<next_id, inflight, now, outbox, minted, env, catalog, accepted>>

-----------------------------------------------------------------------------
(* GET /api/account/<int:user_id> *)

\* requester_id != user_id, where the identity of the JWT is an int or a str
\* and user_id is the int of the route
IdentityDiffers(identity, user_id) == identity.str \/ identity.v # user_id

ShowUser(identity, user_id) ==
    /\ LET requester == GetUser(identity.v)
           user == GetUser(user_id)
       IN  IF IdentityDiffers(identity, user_id) /\ requester = NoUser
           THEN last' = [Reply("show_user", 92, 404, "Not Found") EXCEPT
                           !.who = identity, !.uid = user_id]
           ELSE IF IdentityDiffers(identity, user_id) /\ ~Privileged(requester, {"admin"})
           THEN last' = [Reply("show_user", 95, 403, "Forbidden") EXCEPT
                           !.who = identity, !.uid = user_id]
           ELSE IF user = NoUser
           THEN last' = [Reply("show_user", 97, 404, "Not Found") EXCEPT
                           !.who = identity, !.uid = user_id]
           ELSE last' = [Reply("show_user", 98, 200, "profile") EXCEPT
                           !.who = identity, !.uid = user.id, !.email = user.email,
                           !.json = {SchemaDump(user)}]
    /\ UNCHANGED <<users, next_id, inflight, now, outbox, minted, env, catalog, accepted>>

-----------------------------------------------------------------------------
(* The clock *)

\* the instants at which a token's age is on either side of a max_age
Times == {0, RESET_MAX_AGE, RESET_MAX_AGE + 1, VERIFY_MAX_AGE, VERIFY_MAX_AGE + 1}

Tick(t) ==
    /\ t \in Times
    /\ t > now
    /\ now' = t
    /\ last' = Reply("tick", 0, 0, "")
    /\ UNCHANGED <<users, next_id, inflight, outbox, minted, env, catalog, accepted>>

-----------------------------------------------------------------------------
(* Deployment: whether the User class has the role methods (assign_role,    *)
(* has_role), whether GOOGLE_CLIENT_ID is configured, whether               *)
(* api.utils.token_utils provides callable reset-token helpers.             *)

Env(role_system, google_client_id, token_utils) ==
    [role_system |-> role_system, google_client_id |-> google_client_id,
     token_utils |-> token_utils, verified_attr |-> FALSE,
     development |-> FALSE]

EmptyStore ==
    /\ users = {}
    /\ next_id = 1
    /\ inflight = [s \in Slots |-> NoReq]
    /\ now = 0
    /\ outbox = {}
    /\ minted = {}
    /\ accepted = <<>>
    /\ last = Reply("none", 0, 0, "")
    /\ roles_permissions = {}
    /\ rides = {}
    /\ transactions = {}
    /\ sessions = {}

-----------------------------------------------------------------------------
(* Registration and login, with registrations running concurrently *)

Init ==
    /\ EmptyStore
    /\ env \in {Env(r, TRUE, TRUE) : r \in BOOLEAN}

Next ==
    \/ \E s \in Slots, n \in NameInputs, e \in EmailInputs,
          p \in NewPasswordInputs, c \in ConfirmationInputs, m \in MarketingInputs :
          RegisterBegin(s, n, e, p, c, m)
    \/ \E s \in Slots, ok \in BOOLEAN : RegisterCommit(s, ok)
    \/ \E e \in EmailInputs, p \in PasswordInputs : Login(e, p)

Spec == Init /\ [][Next]_vars

-----------------------------------------------------------------------------
(* Every request that creates a user or changes an email *)

InitAccounts ==
    /\ EmptyStore
    /\ env \in {Env(TRUE, g, TRUE) : g \in BOOLEAN}

NextAccounts ==
    \/ \E s \in Slots, e \in {EmailA, EmailASpace} :
          RegisterBegin(s, NameAna, e, Secret1, Secret1, FALSE)
    \/ \E s \in Slots : RegisterCommit(s, TRUE)
    \/ \E c \in GoogleCredentials, m \in MarketingInputs : LoginGoogle(c, m)
    \/ \E e \in {EmailAUpper, EmailASpace, Absent}, r \in RoleInputs :
          CreateUser(NameAna, e, Secret1, r, "ok")
    \/ \E id \in 1..MaxUsers, n \in {Absent, NameBo},
          e \in {Absent, EmailAUpper, EmailB} :
          EditAccount(id, n, e)

SpecAccounts == InitAccounts /\ [][NextAccounts]_vars

-----------------------------------------------------------------------------
(* Two registered users, their verification mails sent at time 0 *)

Ana == [id |-> 1, name |-> NameAna, email |-> EmailA,
        password |-> generate_password_hash(Secret1),
        role |-> "", type |-> "user", roles |-> {"cliente"}, is_active |-> TRUE,
        marketing_allowed |-> FALSE, email_verified |-> FALSE,
        vehicle_id |-> 0]

Bo == [id |-> 2, name |-> NameBo, email |-> EmailB,
       password |-> generate_password_hash(Secret1),
       role |-> "", type |-> "user", roles |-> {"cliente", "admin"}, is_active |-> TRUE,
       marketing_allowed |-> FALSE, email_verified |-> FALSE,
        vehicle_id |-> 0]

Registered ==
    /\ users = {Ana, Bo}
    /\ next_id = 3
    /\ inflight = [s \in Slots |-> NoReq]
    /\ now = 0
    /\ minted = {create_email_verification_token(u.id, 0) : u \in {Ana, Bo}}
    /\ outbox = {[to |-> u.email, kind |-> "verify",
                  token |-> create_email_verification_token(u.id, 0)] : u \in {Ana, Bo}}
    /\ accepted = <<>>
    /\ last = Reply("none", 0, 0, "")

\* no role has a permission, no ride and no transaction has been stored
EmptyCatalog ==
    /\ roles_permissions = {}
    /\ rides = {}
    /\ transactions = {}
    /\ sessions = {}

\* what a client can present as a token: one that was issued, one of those
\* with its payload or timestamp rewritten, or a string that is no token
Tampered(k) == {[k EXCEPT !.uid = u.id] : u \in users} \cup {[k EXCEPT !.ts = now]}

Presentable == minted \cup UNION {Tampered(k) : k \in minted} \cup {NoSigned}

-----------------------------------------------------------------------------
(* The password-reset and email-verification tokens, over time *)

InitTokens ==
    /\ Registered
    /\ EmptyCatalog
    /\ env \in {Env(TRUE, TRUE, t) : t \in BOOLEAN}

NextTokens ==
    \/ \E t \in Times : Tick(t)
    \/ \E e \in {Absent, Blank, EmailAUpper, EmailASpace, EmailC}, ok \in BOOLEAN :
          RequestPasswordReset(e, ok)
    \/ \E k \in Presentable, a \in BOOLEAN : ShowResetForm(k, a)
    \/ \E k \in Presentable, p \in {Secret2, Short} :
          ResetPassword(k, p, Secret2, FALSE)
    \/ \E k \in Presentable : VerifyEmail(k)

SpecTokens == InitTokens /\ [][NextTokens]_vars

-----------------------------------------------------------------------------
(* Authorization by role, with and without the role methods *)

InitAuthz ==
    /\ Registered
    /\ EmptyCatalog
    /\ env \in {Env(r, TRUE, TRUE) : r \in BOOLEAN}

Identities == {[v |-> i, str |-> b] : i \in 1..(MaxUsers + 1), b \in BOOLEAN}

NextAuthz ==
    \/ \E e \in {EmailA, EmailB}, ok \in BOOLEAN : RequestPasswordReset(e, ok)
    \/ \E k \in Presentable, p \in {Secret1, Secret2}, c \in {Secret2}, a \in BOOLEAN :
          ResetPassword(k, p, c, a)
    \/ \E i \in Identities, id \in 1..(MaxUsers + 1) : ShowUser(i, id)

SpecAuthz == InitAuthz /\ [][NextAuthz]_vars

-----------------------------------------------------------------------------
(* Claims about accounts *)

\* two emails that differ only in letter case or surrounding whitespace
SameAddress(e, f) == Strip(Lower(e)) = Strip(Lower(f))

\* C1: after any sequence of user-creating or email-changing requests, no
\* two stored users have emails that are equal when compared without regard
\* to letter case and surrounding whitespace.
C1_EmailsUniqueIgnoringCaseAndSpace ==
    \A u \in users, v \in users : u.id # v.id => ~SameAddress(u.email, v.email)

\* the last request was a registration that is valid once its email is trimmed
RegistrationOtherwiseValid ==
    /\ last.op = "register"
    /\ RegisterErrors(NameAna, Strip(last.email), last.password, last.confirmation) = {}

\* C2: an accepted registration stores the input email lowercased and
\* trimmed; a later registration whose email differs from a registered one
\* only in letter case or surrounding whitespace is answered 400 "Email
\* already registered" and creates no user.
C2_RegisterNormalizesAndRejectsVariants ==
    /\ (last.op = "register" /\ last.status = 201)
          => GetUser(last.uid).email = Strip(Lower(last.email))
    /\ (/\ RegistrationOtherwiseValid
        /\ last.line \in {164, 168}
        /\ \E u \in users : SameAddress(u.email, last.email))
          => /\ last.status = 400
             /\ last.msg = "Email already registered"

\* C3: when register requests for the same email both pass the existence
\* check before either commits, exactly one user is created and the loser is
\* answered 400 "Email already registered", not a 500.
C3_RaceLoserGetsEmailTaken ==
    /\ \A u \in users, v \in users : u.email = v.email => u = v
    /\ (/\ RegistrationOtherwiseValid
        /\ last.status # 201
        /\ \E u \in users : u.email = Lower(last.email))
          => /\ last.status = 400
             /\ last.msg = "Email already registered"

\* the stored user whose password the last login request presented
LoginMatch ==
    {u \in users : /\ u.email = Lower(last.email)
                   /\ check_password_hash(u.password, last.password)}

\* C4: login answers the same 401 "Unauthorized" whether the email matches
\* no user or the password is wrong, and answers 200 with a token only when
\* the email matches a user whose stored hash verifies the password.
C4_LoginFailsClosedUniformly ==
    last.op = "login" =>
        /\ last.status = 200 <=> (LoginErrors(last.email, last.password) = {}
                                  /\ LoginMatch # {})
        /\ last.status = 200 =>
              /\ last.token # NoToken
              /\ \E u \in LoginMatch : last.uid = u.id /\ last.token = create_token(u.email)
        /\ (LoginErrors(last.email, last.password) = {} /\ LoginMatch = {}) =>
              Body(last) = Body(Reply("login", 143, 401, "Unauthorized"))

\* a login with a wrong password for a registered email was refused, and so
\* was one for an email nobody registered
C4_Witness ==
    /\ last.op = "login" /\ last.status = 401
    /\ FindByEmail(Lower(last.email)) # NoUser
    /\ \E e \in EmailInputs : IsEmail(e) /\ FindByEmail(Lower(e)) = NoUser

\* C5: a login with any letter-case or surrounding-whitespace variant of a
\* registered email and with that user's password succeeds and returns the
\* id of that user.
C5_LoginAcceptsEveryVariant ==
    \A u \in users :
        (/\ last.op = "login"
         /\ SameAddress(u.email, last.email)
         /\ check_password_hash(u.password, last.password))
            => (last.status = 200 /\ last.uid = u.id)

-----------------------------------------------------------------------------
(* Claims about tokens and authorization *)

VerifyTokens(tokens) == {k \in tokens : k.sig[1] = EMAIL_VERIFY_SALT}

\* the email request_password_reset looked up for the last request
RequestedEmail == Strip(Lower(IF last.email = Absent THEN Empty ELSE last.email))

\* C6: request_password_reset answers the same 200 generic message for every
\* input (no email, unknown email, known email, known email whose delivery
\* fails), and for an email that matches no user it mints no reset token and
\* sends no mail.
C6_ResetRequestUniform ==
    /\ [](last.op = "request_password_reset" =>
             Body(last) = Body(Reply("request_password_reset", 0, 200, GenericMessage)))
    /\ [][(last'.op = "request_password_reset" /\ FindByEmail(RequestedEmail') = NoUser)
             => (minted' = minted /\ outbox' = outbox)]_vars

\* an unknown email was answered after a known one had been sent its mail
C6_Witness ==
    /\ last.op = "request_password_reset"
    /\ last.line = 350
    /\ \E m \in outbox : m.kind = "reset"

\* the last request took its token to the reset verifier
ResetVerified ==
    \/ last.op = "show_reset_form" /\ last.line \in {302, 304}
    \/ last.op = "reset_password" /\ last.line \in {323, 333, 335}

\* and the verifier returned a user
ResetAccepted ==
    \/ last.op = "show_reset_form" /\ last.line = 304
    \/ last.op = "reset_password" /\ last.line \in {333, 335}

\* C7: the reset verifier of show_reset_form and reset_password accepts a
\* token exactly when it is a token create_password_reset_token issued,
\* unaltered, and at most 3600 seconds old; verify_email accepts exactly the
\* issued verification tokens that are at most 24 hours old.
C7_TokensValidWithinMaxAge ==
    /\ ResetVerified =>
          (ResetAccepted <=> /\ last.presented \in ResetTokens(minted)
                             /\ now - last.presented.ts <= RESET_MAX_AGE)
    /\ last.op = "verify_email" =>
          (last.line = 397 <=> /\ last.presented \in VerifyTokens(minted)
                               /\ now - last.presented.ts <= VERIFY_MAX_AGE)

\* a reset token changed a password when it was exactly 3600 seconds old
C7_Witness ==
    /\ last.op = "reset_password"
    /\ ResetAccepted
    /\ now - last.presented.ts = RESET_MAX_AGE

\* C8: a token issued for one purpose is never accepted for the other, at
\* any age: the reset verifier refuses every verification token and
\* verify_email refuses every reset token.
C8_PurposesAreDisjoint ==
    /\ (ResetVerified /\ last.presented \in VerifyTokens(minted)) => ~ResetAccepted
    /\ (last.op = "verify_email" /\ last.presented \in ResetTokens(minted))
          => last.line = 379

\* a fresh reset token was presented to verify_email and refused
C8_Witness ==
    /\ last.op = "verify_email"
    /\ last.presented \in ResetTokens(minted)
    /\ now = last.presented.ts
    /\ last.line = 379

\* C9: a reset token is not consumed by use: one that has reset a password is
\* never refused while it is at most max_age old, and each accepted
\* presentation sets the password it carries.
C9_ResetTokenReusable ==
    /\ (last.op = "reset_password" /\ last.line = 323) =>
          ~(/\ \E i \in DOMAIN accepted : accepted[i] = last.presented
            /\ now - last.presented.ts <= RESET_MAX_AGE)
    /\ (last.op = "reset_password" /\ ResetAccepted) =>
          GetUser(last.uid).password = generate_password_hash(last.password)

\* the same token reset the password twice, the second time an hour later
C9_Witness ==
    /\ last.op = "reset_password"
    /\ ResetAccepted
    /\ Len(accepted) >= 2
    /\ accepted[1] = accepted[2]
    /\ accepted[2] = last.presented
    /\ now - last.presented.ts = RESET_MAX_AGE

\* C10: show_user returns the profile of a user other than the requester
\* only to a requester with the admin role; when the User class has no
\* has_role, show_user answers 403 to such a request and reset_password
\* redirects to the non-privileged page.
C10_AuthorizationFailsClosed ==
    /\ (last.op = "show_user" /\ last.status = 200 /\ last.uid # last.who.v) =>
          (env.role_system /\ "admin" \in GetUser(last.who.v).roles)
    /\ (/\ last.op = "show_user"
        /\ ~env.role_system
        /\ last.uid # last.who.v
        /\ GetUser(last.who.v) # NoUser) => last.status = 403
    /\ (last.op = "reset_password" /\ ResetAccepted /\ ~env.role_system) =>
          last.msg = "/password/reset/complete"

\* a requester whose roles include admin was refused another user's profile
\* because the User class has no has_role
C10_Witness ==
    /\ last.op = "show_user"
    /\ last.status = 403
    /\ ~env.role_system
    /\ GetUser(last.uid) # NoUser
    /\ "admin" \in GetUser(last.who.v).roles

\* C11: an authenticated user who requests GET /api/account/{id} with their
\* own id receives 200 with their profile, whatever roles they hold; 403 is
\* answered only to a requester that is neither the target nor an admin.
C11_SelfRequestAnswered200 ==
    (/\ last.op = "show_user"
     /\ last.who.v = last.uid
     /\ GetUser(last.who.v) # NoUser)
        => (last.status = 200 /\ last.email = GetUser(last.who.v).email)

-----------------------------------------------------------------------------
(* UserSchema: the roles and permissions of a dumped user *)

MaxPermissions == 3

RoleOrder == <<"admin", "cliente">>

\* rows of the permissions table: name is not unique, rows 1 and 2 share one
Permission(i) == [id |-> i, name |-> IF i <= 2 THEN "rides.read" ELSE "rides.write"]

PermissionRows == [i \in 1..MaxPermissions |-> Permission(i)]

\* user.roles, and role.permissions of one of them, as the lists the
\* relationships load
UserRoles(user) == SelectSeq(RoleOrder, LAMBDA r : r \in user.roles)

RolePermissions(role) ==
    SelectSeq(PermissionRows, LAMBDA p : <<role, p.id>> \in roles_permissions)

RECURSIVE Flatten(_)
Flatten(lists) ==
    IF lists = <<>> THEN <<>> ELSE Head(lists) \o Flatten(Tail(lists))

\* key = id or code or name: the id of a stored row is never None or 0
PermissionKey(p) == p.id

\* an aggregation that never consults `seen`
RECURSIVE AggregateWithoutSeen(_, _, _)
AggregateWithoutSeen(ps, seen, agg) ==
    IF ps = <<>> THEN agg
    ELSE AggregateWithoutSeen(Tail(ps), seen, Append(agg, Head(ps)))

\* lines 106-117: for r in roles: for p in r.permissions: skip p when its key
\* was seen, else remember the key and append p
RECURSIVE Aggregate(_, _, _)
Aggregate(ps, seen, agg) ==
    IF ps = <<>> THEN agg
    ELSE IF PermissionKey(Head(ps)) \in seen
         THEN Aggregate(Tail(ps), seen, agg)
         ELSE Aggregate(Tail(ps), seen \cup {PermissionKey(Head(ps))},
                        Append(agg, Head(ps)))

\* _serialize_permissions: a Permission row has an id and a name and no code,
\* so code = name and every row is dumped as {id, code, name}
serialize_permissions(perms) ==
    [i \in 1..Len(perms) |->
        [id |-> perms[i].id, code |-> perms[i].name, name |-> perms[i].name]]

\* UserSchema._dump_permissions: obj.permissions when the object has the
\* attribute, else the aggregation over obj.roles
dump_permissions(obj) ==
    IF "permissions" \in DOMAIN obj
    THEN serialize_permissions(obj.permissions)
    ELSE serialize_permissions(
             Aggregate(Flatten([i \in 1..Len(UserRoles(obj)) |->
                                   RolePermissions(UserRoles(obj)[i])]),
                       {}, <<>>))

-----------------------------------------------------------------------------
(* GET /api/account/me *)

Me(identity) ==
    /\ LET user == GetUser(identity.v)
       IN  IF user = NoUser
           THEN last' = [Reply("me", 106, 404, "Not Found") EXCEPT !.who = identity]
           ELSE last' = [Reply("me", 107, 200, "profile") EXCEPT
                           !.who = identity, !.uid = user.id, !.email = user.email,
                           !.permissions = dump_permissions(user),
                           !.json = {SchemaDump(user)}]
    /\ UNCHANGED <<users, next_id, inflight, now, outbox, minted, env, catalog, accepted>>

-----------------------------------------------------------------------------
(* The profile of a user, for every assignment of permissions to roles *)

InitDump ==
    /\ Registered
    /\ env = Env(TRUE, TRUE, TRUE)
    /\ roles_permissions \in SUBSET ({"admin", "cliente"} \X (1..MaxPermissions))
    /\ rides = {}
    /\ transactions = {}
    /\ sessions = {}

NextDump == \E i \in Identities : Me(i)

SpecDump == InitDump /\ [][NextDump]_vars

\* the ids of the permissions of the roles of a user
RolePermissionIds(user) ==
    {k[2] : k \in {x \in roles_permissions : x[1] \in user.roles}}

\* C12: the permissions dumped for a user are the union of the permissions of
\* all the user's roles, each appearing exactly once by permission identity,
\* also when two of the user's roles share a permission.
C12_PermissionsDumpedOnce ==
    (last.op = "me" /\ last.status = 200) =>
        /\ {last.permissions[i].id : i \in DOMAIN last.permissions}
               = RolePermissionIds(GetUser(last.uid))
        /\ \A i, j \in DOMAIN last.permissions :
               last.permissions[i].id = last.permissions[j].id => i = j
        /\ \A i \in DOMAIN last.permissions :
               last.permissions[i].name = Permission(last.permissions[i].id).name

\* a user with two roles that share a permission, and two permissions that
\* share a name, was dumped
C12_Witness ==
    /\ last.op = "me"
    /\ last.status = 200
    /\ {"admin", "cliente"} \subseteq GetUser(last.uid).roles
    /\ \E p \in 1..MaxPermissions :
           {<<"admin", p>>, <<"cliente", p>>} \subseteq roles_permissions
    /\ {1, 2} \subseteq RolePermissionIds(GetUser(last.uid))

-----------------------------------------------------------------------------
(* Driver.vehicle and Vehicle.driver: users.vehicle_id, a unique foreign key *)

MaxVehicles == 2

Vehicles == 1..MaxVehicles

\* a stored Driver: a row of users whose polymorphic identity is 'driver'
DriverRow(i) ==
    [id |-> i, name |-> NameAna,
     email |-> IF i = 1 THEN EmailA ELSE IF i = 2 THEN EmailB ELSE EmailC,
     password |-> generate_password_hash(Secret1),
     role |-> "driver", type |-> "driver", roles |-> {}, is_active |-> TRUE,
     marketing_allowed |-> FALSE, email_verified |-> FALSE, vehicle_id |-> 0]

\* users.vehicle_id is declared unique=True: no two rows hold the same
\* vehicle, NULL excepted
UniqueVehicleOk(table) ==
    \A u, w \in table : (u.vehicle_id # 0 /\ u.vehicle_id = w.vehicle_id) => u = w

\* the driver that vehicle.driver loads
Holder(vehicle) ==
    IF \E u \in users : u.vehicle_id = vehicle
    THEN CHOOSE u \in users : u.vehicle_id = vehicle
    ELSE NoUser

\* the rows of `table` with the vehicle_id of row `id` set to `vehicle`
SetVehicle(table, id, vehicle) ==
    {IF u.id = id THEN [u EXCEPT !.vehicle_id = vehicle] ELSE u : u \in table}

\* driver.vehicle_id = vehicle; db.session.commit(): one UPDATE, which the
\* unique constraint refuses when another row holds the vehicle
AssignVehicleId(driver_id, vehicle) ==
    /\ GetUser(driver_id) # NoUser
    /\ IF UniqueVehicleOk(SetVehicle(users, driver_id, vehicle))
       THEN /\ users' = SetVehicle(users, driver_id, vehicle)
            /\ last' = [Reply("assign_vehicle_id", 39, 0, "") EXCEPT
                          !.who = [v |-> driver_id, str |-> FALSE], !.uid = vehicle]
       ELSE /\ UNCHANGED users
            /\ last' = [Reply("assign_vehicle_id", 40, 0, "IntegrityError") EXCEPT
                          !.who = [v |-> driver_id, str |-> FALSE], !.uid = vehicle]
    /\ UNCHANGED <<next_id, inflight, now, outbox, minted, env, catalog, accepted>>

\* vehicle.driver = driver; db.session.commit(): the relationship is scalar
\* on both sides, so the driver that held the vehicle is detached (its
\* vehicle_id set to NULL) and the new driver attached. The flush updates the
\* rows in primary-key order and the unique constraint is checked after each
\* UPDATE.
AssignVehicleDriver(vehicle, driver_id) ==
    /\ GetUser(driver_id) # NoUser
    /\ LET old == Holder(vehicle)
           detached == IF old = NoUser \/ old.id = driver_id THEN users
                       ELSE SetVehicle(users, old.id, 0)
           attached == SetVehicle(users, driver_id, vehicle)
           who == [v |-> driver_id, str |-> FALSE]
       IN  IF old # NoUser /\ old.id # driver_id /\ driver_id < old.id
              /\ ~UniqueVehicleOk(attached)
           THEN /\ UNCHANGED users
                /\ last' = [Reply("assign_vehicle_driver", 40, 0, "IntegrityError")
                              EXCEPT !.who = who, !.uid = vehicle]
           ELSE /\ users' = SetVehicle(detached, driver_id, vehicle)
                /\ last' = [Reply("assign_vehicle_driver", 366, 0, "") EXCEPT
                              !.who = who, !.uid = vehicle]
    /\ UNCHANGED <<next_id, inflight, now, outbox, minted, env, catalog, accepted>>

-----------------------------------------------------------------------------
(* Ride: rows of the rides table *)

MaxRides == 2

STATUS_ACTIVE == "active"
STATUS_DONE == "done"
STATUS_CANCELED == "canceled"
STATUS_CREATED == "created"

\* the values of Enum(STATUS_ACTIVE, STATUS_DONE, STATUS_CANCELED, STATUS_CREATED)
RideStatuses == {STATUS_ACTIVE, STATUS_DONE, STATUS_CANCELED, STATUS_CREATED}

\* a column default that starts a ride as active
DefaultStatusActive == STATUS_ACTIVE

\* status_value: default=STATUS_CREATED
DefaultStatus == STATUS_CREATED

\* Ride.get_ride_status_translation
get_ride_status_translation(status) ==
    CASE status = STATUS_ACTIVE -> "activo"
      [] status = STATUS_DONE -> "completado"
      [] status = STATUS_CANCELED -> "cancelado"
      [] status = STATUS_CREATED -> "creado"
      [] OTHER -> status

\* db.session.add(Ride(customer_id=..., driver_id=...)); db.session.commit():
\* customer_id is NOT NULL, both are foreign keys to users.id (0 is None), and
\* status_value takes the column default
InsertRide(customer_id, driver_id) ==
    /\ Cardinality(rides) < MaxRides
    /\ LET new == [id |-> Cardinality(rides) + 1, status_value |-> DefaultStatus,
                   customer_id |-> customer_id, driver_id |-> driver_id]
       IN  IF customer_id = 0 \/ GetUser(customer_id) = NoUser
              \/ (driver_id # 0 /\ GetUser(driver_id) = NoUser)
           THEN /\ UNCHANGED rides
                /\ last' = [Reply("insert_ride", 195, 0, "IntegrityError") EXCEPT
                              !.who = [v |-> customer_id, str |-> FALSE]]
           ELSE /\ rides' = rides \cup {new}
                /\ last' = [Reply("insert_ride", 190, 0, new.status_value) EXCEPT
                              !.who = [v |-> customer_id, str |-> FALSE],
                              !.uid = new.id]
    /\ UNCHANGED <<users, next_id, inflight, now, outbox, minted, env,
                   roles_permissions, transactions, sessions, accepted>>

\* ride.status_value = Ride.STATUS_...; db.session.commit()
SetRideStatus(ride_id, status) ==
    /\ \E r \in rides : r.id = ride_id
    /\ status \in RideStatuses
    /\ rides' = {IF r.id = ride_id THEN [r EXCEPT !.status_value = status] ELSE r :
                    r \in rides}
    /\ last' = [Reply("set_ride_status", 190, 0, get_ride_status_translation(status))
                  EXCEPT !.uid = ride_id]
    /\ UNCHANGED <<users, next_id, inflight, now, outbox, minted, env,
                   roles_permissions, transactions, sessions, accepted>>

-----------------------------------------------------------------------------
(* Drivers, their vehicles and the rides *)

InitFleet ==
    /\ users = {DriverRow(i) : i \in 1..MaxUsers}
    /\ next_id = MaxUsers + 1
    /\ inflight = [s \in Slots |-> NoReq]
    /\ now = 0
    /\ outbox = {}
    /\ minted = {}
    /\ accepted = <<>>
    /\ last = Reply("none", 0, 0, "")
    /\ env = Env(TRUE, TRUE, TRUE)
    /\ EmptyCatalog

NextFleet ==
    \/ \E d \in 1..MaxUsers, v \in Vehicles \cup {0} : AssignVehicleId(d, v)
    \/ \E v \in Vehicles, d \in 1..MaxUsers : AssignVehicleDriver(v, d)
    \/ \E c \in {0, 1}, d \in {0, MaxUsers + 1} : InsertRide(c, d)
    \/ \E r \in 1..MaxRides, st \in RideStatuses : SetRideStatus(r, st)

SpecFleet == InitFleet /\ [][NextFleet]_vars

\* C13: no vehicle is held by two drivers (and a driver holds one vehicle at
\* most: vehicle_id is one column), and assigning to a driver a vehicle that
\* another driver holds fails and leaves every driver's vehicle unchanged.
C13_VehicleDriverOneToOne ==
    /\ [](\A u, w \in users :
             (u.vehicle_id # 0 /\ u.vehicle_id = w.vehicle_id) => u = w)
    /\ [][(/\ last'.op \in {"assign_vehicle_id", "assign_vehicle_driver"}
           /\ last'.uid # 0
           /\ \E a \in users : a.id # last'.who.v /\ a.vehicle_id = last'.uid)
              => (users' = users /\ last'.msg # "")]_vars

C14_EveryUserIsOneVariant ==
    \A u \in users :
        /\ u.type \in {"customer", "driver", "admin"}
        /\ u.role \in {"client", "driver", "admin"}

-----------------------------------------------------------------------------
(* PUT /api/user/<int:user_id>/role *)

\* the role of a request that has none: data.get("role") is None
NoRole == ""

\* an update that moves the row to the variant of the new role
WithRoleAndType(user, new_role) == [user EXCEPT !.role = new_role, !.type = new_role]

\* user.role = new_role
WithRole(user, new_role) == [user EXCEPT !.role = new_role]

ChangeRole(user_id, new_role, outcome) ==
    /\ LET user == GetUser(user_id)
           changed == WithRole(user, new_role)
       IN  IF user = NoUser
           THEN /\ last' = [Reply("change_role", 97, 404, "Not Found") EXCEPT
                              !.uid = user_id]
                /\ UNCHANGED users
           ELSE IF new_role = NoRole \/ after_save_hook(changed, outcome) = "raised"
           THEN \* users.role is NOT NULL: the commit raises and nothing is stored
                /\ last' = [Reply("change_role", 99, 500, "Internal Server Error")
                              EXCEPT !.uid = user_id,
                                     !.mailchimp = IF new_role = NoRole THEN "none"
                                                   ELSE outcome]
                /\ UNCHANGED users
           ELSE /\ users' = (users \ {user}) \cup {changed}
                /\ last' = [Reply("change_role", 101, 200, "Role updated") EXCEPT
                              !.uid = user_id, !.mailchimp = outcome]
    /\ UNCHANGED <<next_id, inflight, now, outbox, minted, env, catalog, accepted>>

-----------------------------------------------------------------------------
(* The user administration of routes.py, with the mailing list failing *)

InitAdmin ==
    /\ EmptyStore
    /\ env \in {[Env(FALSE, TRUE, TRUE) EXCEPT !.development = d] : d \in BOOLEAN}

NextAdmin ==
    \/ \E e \in {EmailA, EmailB, Absent}, r \in {"client", "driver"},
          o \in MailchimpOutcomes :
          CreateUser(NameAna, e, Secret1, r, o)
    \/ \E id \in 1..(MaxUsers + 1), r \in {NoRole, "driver", "admin"},
          o \in MailchimpOutcomes :
          ChangeRole(id, r, o)

SpecAdmin == InitAdmin /\ [][NextAdmin]_vars

C19_SyncFailureDoesNotFailTheRequest ==
    /\ (last.op = "create_user" /\ last.mailchimp \notin {"none", "ok"}) =>
           /\ last.status = 201
           /\ GetUser(last.uid) # NoUser
           /\ GetUser(last.uid).email = CreateUserEmail(last.email)
    /\ (last.op = "change_role" /\ last.mailchimp \notin {"none", "ok"}) =>
           /\ last.status = 200
           /\ GetUser(last.uid) # NoUser

\* outside development, a user was created and then given a role while the
\* mailing list was failing
C19_Witness ==
    /\ ~env.development
    /\ last.op = "change_role"
    /\ last.mailchimp = "KeyError"
    /\ last.status = 200
    /\ GetUser(last.uid).role = "admin"

-----------------------------------------------------------------------------
(* token_required: GET /auth/profile and GET /auth/check_token *)

\* what decode_token does with a token: it returns the payload, or raises
\* ExpiredSignatureError, InvalidTokenError or another exception (a payload
\* whose email is not a string makes email.lower() raise)
Jwt(email, raises) == [email |-> email, raises |-> raises]

\* api.utils.jwt_handler.decode_token
decode_token(token) ==
    IF token.raises # "" THEN [raised |-> token.raises, email |-> <<>>]
    ELSE [raised |-> "", email |-> token.email]

\* the Authorization header: none, another scheme, "Bearer " followed by
\* blanks, "Bearer <token>"
Header(scheme, token) == [scheme |-> scheme, token |-> token]

Headers ==
    {Header(sch, Jwt(<<>>, "")) : sch \in {"none", "Basic", "BearerBlank"}}
    \cup {Header("Bearer", Jwt(<<>>, r)) :
              r \in {"ExpiredSignatureError", "InvalidTokenError", "Exception"}}
    \cup {Header("Bearer", Jwt(e, "")) : e \in {Empty, EmailA, EmailAUpper, EmailB, EmailC}}
    \cup {Header("Basic", Jwt(EmailA, ""))}

\* _get_bearer_token: the token, or None
HasBearerToken(header) == header.scheme = "Bearer"

Refused(line, msg) == [line |-> line, status |-> 401, msg |-> msg, user |-> NoUser]

\* a decorator that calls the handler whether or not the email has a user
token_required_without_lookup(header) ==
    IF ~HasBearerToken(header) THEN Refused(60, "Token is missing")
    ELSE LET data == decode_token(header.token)
         IN  IF data.raised = "ExpiredSignatureError" THEN Refused(70, "Token expired")
             ELSE IF data.raised = "InvalidTokenError" THEN Refused(72, "Invalid token")
             ELSE IF data.raised # "" THEN Refused(74, "Token error")
             ELSE IF data.email = <<>> THEN Refused(65, "Invalid token payload")
             ELSE [line |-> 75, status |-> 0, msg |-> "",
                   user |-> FindByEmail(Lower(data.email))]

\* decorated(): the refusal, or line 75 with the user the handler is called with
token_required(header) ==
    IF ~HasBearerToken(header) THEN Refused(60, "Token is missing")
    ELSE LET data == decode_token(header.token)
         IN  IF data.raised = "ExpiredSignatureError" THEN Refused(70, "Token expired")
             ELSE IF data.raised = "InvalidTokenError" THEN Refused(72, "Invalid token")
             ELSE IF data.raised # "" THEN Refused(74, "Token error")
             ELSE IF data.email = <<>> THEN Refused(65, "Invalid token payload")
             ELSE IF FindByEmail(Lower(data.email)) = NoUser
             THEN Refused(68, "User not found")
             ELSE [line |-> 75, status |-> 0, msg |-> "",
                   user |-> FindByEmail(Lower(data.email))]

Profile(header) ==
    /\ LET checked == token_required(header)
       IN  IF checked.line # 75
           THEN last' = [Reply("profile", checked.line, checked.status, checked.msg)
                           EXCEPT !.bearer = header]
           ELSE last' = [Reply("profile", 276, 200, "profile") EXCEPT
                           !.bearer = header, !.uid = checked.user.id,
                           !.json = IF checked.user = NoUser THEN {}
                                    ELSE {AuthUser(checked.user)}]
    /\ UNCHANGED <<users, next_id, inflight, now, outbox, minted, env, catalog, accepted>>

CheckToken(header) ==
    /\ LET checked == token_required(header)
       IN  IF checked.line # 75
           THEN last' = [Reply("check_token", checked.line, checked.status, checked.msg)
                           EXCEPT !.bearer = header]
           ELSE last' = [Reply("check_token", 287, 200, "Token valido") EXCEPT
                           !.bearer = header, !.uid = checked.user.id,
                           !.json = {[id |-> checked.user.id]}]
    /\ UNCHANGED <<users, next_id, inflight, now, outbox, minted, env, catalog, accepted>>

-----------------------------------------------------------------------------
(* DELETE /api/user/<int:user_id> *)

\* the flush of db.session.delete(user): the relationships of User have no
\* delete cascade, so the foreign key `field` of every loaded child row that
\* points at the user is set to NULL (0)
Nullified(rows, field, user_id) ==
    {IF r[field] = user_id THEN [r EXCEPT ![field] = 0] ELSE r : r \in rows}

\* a rides.customer_id that accepts NULL
CustomerNullable(ride) == TRUE

\* rides.customer_id: nullable=False
CustomerNotNull(ride) == ride.customer_id # 0

\* a transactions.user_id that accepts NULL
OwnerNullable(transaction) == TRUE

\* transactions.user_id: nullable=False
OwnerNotNull(transaction) == transaction.user_id # 0

DeleteUser(user_id) ==
    /\ LET orphans == Nullified(Nullified(rides, "driver_id", user_id),
                                "customer_id", user_id)
           unowned == Nullified(transactions, "user_id", user_id)
       IN  IF GetUser(user_id) = NoUser
           THEN /\ last' = [Reply("delete_user", 106, 404, "Not Found") EXCEPT
                              !.uid = user_id]
                /\ UNCHANGED <<users, rides, transactions>>
           ELSE IF \/ \E r \in orphans : ~CustomerNotNull(r)
                   \/ \E t \in unowned : ~OwnerNotNull(t)
           THEN \* an UPDATE of the flush is refused: the commit raises and the
                \* transaction is rolled back
                /\ last' = [Reply("delete_user", 108, 500, "IntegrityError") EXCEPT
                              !.uid = user_id]
                /\ UNCHANGED <<users, rides, transactions>>
           ELSE /\ users' = users \ {GetUser(user_id)}
                /\ rides' = orphans
                /\ transactions' = unowned
                /\ last' = [Reply("delete_user", 109, 200, "User deleted") EXCEPT
                              !.uid = user_id]
    /\ UNCHANGED <<next_id, inflight, now, outbox, minted, env, roles_permissions,
                   sessions, accepted>>

-----------------------------------------------------------------------------
(* Bearer tokens presented while users are deleted *)

InitSession ==
    /\ Registered
    /\ EmptyCatalog
    /\ env = Env(TRUE, TRUE, TRUE)

NextSession ==
    \/ \E h \in Headers : Profile(h)
    \/ \E h \in Headers : CheckToken(h)
    \/ \E id \in 1..(MaxUsers + 1) : DeleteUser(id)

SpecSession == InitSession /\ [][NextSession]_vars

\* the request went through the decorator into the handler
HandlerRan == last.line \in {276, 287}

\* the request carries a Bearer token that decodes, is unexpired, contains an
\* email, and the email is that of a stored user
BearerGood ==
    /\ last.bearer.scheme = "Bearer"
    /\ last.bearer.token.raises = ""
    /\ last.bearer.token.email # <<>>
    /\ \E u \in users : u.email = Lower(last.bearer.token.email)

\* C17: profile and check_token run their handler only when the request
\* carries a Bearer token that decodes, is unexpired, contains an email, and
\* the email belongs to a stored user; in every other case the response is
\* 401 and the handler is not run.
C17_TokenRequiredGuardsTheHandler ==
    last.op \in {"profile", "check_token"} =>
        /\ HandlerRan =>
               /\ BearerGood
               /\ \E u \in users : /\ u.email = Lower(last.bearer.token.email)
                                    /\ u.id = last.uid
        /\ ~BearerGood => (last.status = 401 /\ ~HandlerRan)

\* the token of a deleted user was refused
C17_Witness ==
    /\ last.op = "profile"
    /\ last.status = 401
    /\ last.line = 68
    /\ last.bearer.token.email = EmailA
    /\ Cardinality(users) < 2

-----------------------------------------------------------------------------
(* PUT/PATCH /api/account/edit, in two steps: up to the uniqueness check of  *)
(* line 61-66, then the commit, so that requests interleave                  *)

NameCy == <<"C", "y">>

\* a request end that stores what the session holds
CommitPending(table, pending) ==
    {IF u.id = pending.id THEN pending ELSE u : u \in table}

\* db.session.rollback(), and the removal of the session at the end of a
\* request that returned without commit: what the session holds is dropped
Discard(table, pending) == table

EditAccountCheck(slot, id, name, email) ==
    /\ inflight[slot] = NoReq
    /\ \A t \in Slots : t < slot => inflight[t] # NoReq
    /\ LET user == GetUser(id)
           new_email == IF email = Absent THEN user.email
                        ELSE NormalizeEmail(PreLoadEmail(email))
           new_name == IF name = Absent THEN user.name ELSE PreLoadName(name)
           named == [user EXCEPT !.name = new_name]
           who == [v |-> id, str |-> FALSE]
       IN  IF user = NoUser
           THEN /\ last' = [Reply("edit_account", 36, 404, "Not Found") EXCEPT !.who = who]
                /\ UNCHANGED <<users, inflight>>
           ELSE IF name = Absent /\ email = Absent
           THEN /\ last' = [Reply("edit_account", 45, 400, "No editable fields provided")
                              EXCEPT !.who = who]
                /\ UNCHANGED <<users, inflight>>
           ELSE IF EditErrors(name, email) # {}
           THEN /\ last' = [Reply("edit_account", 51, 422, "Validation failed") EXCEPT
                              !.who = who, !.errors = EditErrors(name, email),
                              !.email = email, !.name = name]
                /\ UNCHANGED <<users, inflight>>
           ELSE IF new_email # user.email
                   /\ \E o \in users : o.email = new_email /\ o.id # user.id
           THEN /\ last' = [Reply("edit_account", 65, 400, "Email already in use") EXCEPT
                              !.who = who, !.email = email, !.name = name]
                /\ users' = Discard(users, named)
                /\ UNCHANGED inflight
           ELSE /\ inflight' = [inflight EXCEPT ![slot] =
                                   [email |-> new_email, given |-> email, id |-> id,
                                    name |-> new_name, named |-> name]]
                /\ last' = Reply("edit_account_check", 66, 0, "")
                /\ UNCHANGED users
    /\ UNCHANGED <<next_id, now, outbox, minted, env, catalog, accepted>>

\* lines 68-81: the commit, which the store refuses when another row took the
\* email in the meantime, or which fails for another reason
EditAccountCommit(slot, storeOk) ==
    /\ inflight[slot] # NoReq
    /\ "id" \in DOMAIN inflight[slot]
    /\ LET req == inflight[slot]
           user == GetUser(req.id)
           edited == [user EXCEPT !.name = req.name, !.email = req.email]
           who == [v |-> req.id, str |-> FALSE]
       IN  IF ~storeOk
           THEN /\ users' = Discard(users, edited)
                /\ last' = [Reply("edit_account", 76, 500, "Error updating user") EXCEPT
                              !.who = who, !.email = req.given, !.name = req.named]
           ELSE IF ~UniqueEmailOk(users \ {user}, req.email)
           THEN /\ users' = Discard(users, edited)
                /\ last' = [Reply("edit_account", 73, 400, "Email already in use") EXCEPT
                              !.who = who, !.email = req.given, !.name = req.named]
           ELSE /\ users' = (users \ {user}) \cup {edited}
                /\ last' = [Reply("edit_account", 81, 200, "Success") EXCEPT
                              !.who = who, !.uid = user.id, !.email = req.given,
                              !.name = req.named, !.json = {SchemaDump(edited)}]
    /\ inflight' = [inflight EXCEPT ![slot] = NoReq]
    /\ UNCHANGED <<next_id, now, outbox, minted, env, catalog, accepted>>

-----------------------------------------------------------------------------
(* Two users editing their accounts at the same time *)

InitEdit ==
    /\ Registered
    /\ EmptyCatalog
    /\ env = Env(TRUE, TRUE, TRUE)

NextEdit ==
    \/ \E s \in Slots, id \in 1..(MaxUsers + 1), n \in {Absent, NameCy},
          e \in {Absent, EmailB, EmailC} :
          EditAccountCheck(s, id, n, e)
    \/ \E s \in Slots, ok \in BOOLEAN : EditAccountCommit(s, ok)

SpecEdit == InitEdit /\ [][NextEdit]_vars

\* C18: edit_account is atomic: when it ends in failure (400 duplicate email
\* from the pre-check, 400 from a unique violation at commit, or 500) no field
\* of any stored user has changed, including a name supplied in the same
\* request as the rejected email.
C18_EditAccountAtomic ==
    [][(last'.op = "edit_account" /\ last'.status # 200) => users' = users]_vars

\* a request that supplied a new name lost the race for its new email at
\* commit, and the user still has the old name
C18_Witness ==
    /\ last.op = "edit_account"
    /\ last.line = 73
    /\ last.name = NameCy
    /\ GetUser(last.who.v).name # NameCy
    /\ \E u \in users : u.id # last.who.v /\ u.email = EmailC

-----------------------------------------------------------------------------
(* GET /api/user/<int:user_id> and GET /api/users *)

GetUserRoute(user_id) ==
    /\ IF GetUser(user_id) = NoUser
       THEN last' = [Reply("get_user", 88, 404, "Not Found") EXCEPT !.uid = user_id]
       ELSE last' = [Reply("get_user", 89, 200, "user") EXCEPT
                       !.uid = user_id, !.json = {serialize(GetUser(user_id))}]
    /\ UNCHANGED <<users, next_id, inflight, now, outbox, minted, env, catalog, accepted>>

\* ?role=... filters by the role column; the first page of 10 holds every row
ListUsers(role) ==
    /\ last' = [Reply("list_users", 49, 200, "users") EXCEPT
                  !.json = {serialize(u) : u \in {w \in users : role = NoRole \/ w.role = role}}]
    /\ UNCHANGED <<users, next_id, inflight, now, outbox, minted, env, catalog, accepted>>

-----------------------------------------------------------------------------
(* Every request that stores a password, and every response that shows a user *)

InitSecrets ==
    /\ EmptyStore
    /\ env = Env(TRUE, TRUE, TRUE)

NextSecrets ==
    \/ \E sl \in Slots : RegisterBegin(sl, NameAna, EmailA, Secret1, Secret1, FALSE)
    \/ \E sl \in Slots : RegisterCommit(sl, TRUE)
    \/ LoginGoogle([kind |-> "verified", email |-> EmailAUpper], FALSE)
    \/ CreateUser(NameBo, EmailB, Secret2, "client", "ok")
    \/ RequestPasswordReset(EmailA, TRUE)
    \/ \E k \in minted : ResetPassword(k, Secret2, Secret2, FALSE)
    \/ \E pw \in PasswordInputs : Login(EmailA, pw)
    \/ Profile(Header("Bearer", Jwt(EmailA, "")))
    \/ CheckToken(Header("Bearer", Jwt(EmailA, "")))
    \/ \E id \in 1..MaxUsers : GetUserRoute(id)
    \/ \E r \in {NoRole, "client"} : ListUsers(r)
    \/ \E id \in 1..MaxUsers : ShowUser([v |-> id, str |-> FALSE], id)
    \/ \E id \in 1..MaxUsers : Me([v |-> id, str |-> FALSE])
    \/ \E id \in 1..MaxUsers : EditAccount(id, NameCy, Absent)

SpecSecrets == InitSecrets /\ [][NextSecrets]_vars

\* every value of every object of a response body, printed
Shown(r) == UNION {{ToString(v[f]) : f \in DOMAIN v} : v \in r.json}

\* C16: the stored password of every user is a one-way hash and never the
\* raw password supplied to register, create_user, login_google or
\* reset_password, and no response of register, login, login_google, profile,
\* check_token, get_user, list_users, show_user, me or edit_account contains a
\* raw password or a stored hash.
C16_PasswordsHashedAndNeverShown ==
    /\ \A u \in users : u.password.method = "pbkdf2"
    /\ (/\ last.op \in {"register", "create_user", "reset_password"}
        /\ last.line \in {208, 83, 333, 335}) =>
           /\ check_password_hash(GetUser(last.uid).password, last.password)
           /\ ToString(GetUser(last.uid).password) # ToString(last.password)
    /\ \A u \in users :
           /\ ToString(u.password) \notin Shown(last)
           /\ ToString(u.password.of) \notin Shown(last)

\* a user whose password was set by register and again by reset_password was
\* listed next to a user made by create_user
C16_Witness ==
    /\ last.op = "list_users"
    /\ Cardinality(last.json) = 2
    /\ Len(accepted) > 0
    /\ \E u \in users : u.password = generate_password_hash(Secret2) /\ u.email = EmailA

-----------------------------------------------------------------------------
(* Transaction: rows of the transactions table. An amount is held in        *)
(* thousandths: 19999 is 19.999.                                            *)

MaxTransactions == 2

\* db.session.add(Transaction(user_id=..., ride_id=..., amount=..., type=...));
\* db.session.commit(): user_id is NOT NULL, user_id and ride_id are foreign
\* keys (0 is None), and currency takes the column default
RecordTransaction(user_id, ride_id, amount) ==
    /\ Cardinality(transactions) < MaxTransactions
    /\ LET new == [id |-> Cardinality(transactions) + 1, user_id |-> user_id,
                   ride_id |-> ride_id, amount |-> amount, type |-> "payment",
                   currency |-> "USD"]
       IN  IF ~OwnerNotNull(new) \/ GetUser(user_id) = NoUser
              \/ (ride_id # 0 /\ \A r \in rides : r.id # ride_id)
           THEN /\ UNCHANGED transactions
                /\ last' = [Reply("record_transaction", 428, 0, "IntegrityError") EXCEPT
                              !.who = [v |-> user_id, str |-> FALSE]]
           ELSE /\ transactions' = transactions \cup {new}
                /\ last' = [Reply("record_transaction", 427, 0, "") EXCEPT
                              !.who = [v |-> user_id, str |-> FALSE], !.uid = new.id]
    /\ UNCHANGED <<users, next_id, inflight, now, outbox, minted, env,
                   roles_permissions, rides, sessions, accepted>>

-----------------------------------------------------------------------------
(* Rides and transactions of users that are deleted or given another role   *)

InitLedger ==
    /\ Registered
    /\ EmptyCatalog
    /\ env = Env(TRUE, TRUE, TRUE)

NextLedger ==
    \/ \E c \in 0..MaxUsers, d \in 0..MaxUsers : InsertRide(c, d)
    \/ \E u \in 0..MaxUsers, r \in 0..1, a \in {19999} : RecordTransaction(u, r, a)
    \/ \E id \in 1..MaxUsers : DeleteUser(id)
    \/ \E id \in 1..MaxUsers : ChangeRole(id, "driver", "ok")

SpecLedger == InitLedger /\ [][NextLedger]_vars

\* C21: every stored Ride references a customer that is a stored user, from
\* its creation and after any sequence of operations, delete_user on the
\* ride's customer included.
C21_RideCustomerAlwaysPresent ==
    \A r \in rides : r.customer_id # 0 /\ GetUser(r.customer_id) # NoUser

\* delete_user was asked to delete the customer of a stored ride, after the
\* driver of a ride had been deleted
C21_Witness ==
    /\ last.op = "delete_user"
    /\ last.status = 500
    /\ \E r \in rides : r.customer_id = last.uid
    /\ Cardinality(users) < MaxUsers

\* C22: the transaction ledger is append-only: no operation changes a field
\* of a recorded Transaction or removes it, delete_user and change_role on
\* its owning user included.
C22_LedgerAppendOnly ==
    [][\A t \in transactions : t \in transactions']_vars

\* delete_user was asked to delete the owner of a recorded transaction whose
\* role had been changed
C22_Witness ==
    /\ last.op = "delete_user"
    /\ \E t \in transactions : t.user_id = last.uid /\ GetUser(t.user_id).role = "driver"

-----------------------------------------------------------------------------
(* Money: what a response shows of an amount. A float holds so many         *)
(* thousandths; a JSON value is a number or a string, with the text that is *)
(* written.                                                                 *)

MaxAmount == 6

\* amounts with up to three decimal places, on both sides of a half, of
\* either sign, and 19.994, 19.995, 19.999
Amounts == (-MaxAmount..MaxAmount) \cup {19994, 19995, 19999}

Float(milli) == [kind |-> "float", milli |-> milli]

JsonNumber(text) == [kind |-> "number", text |-> text]
JsonString(text) == [kind |-> "string", text |-> text]

Abs(n) == IF n < 0 THEN 0 - n ELSE n

DigitChar(d) == <<"0", "1", "2", "3", "4", "5", "6", "7", "8", "9">>[d + 1]

\* str(n) of a natural number
RECURSIVE NatStr(_)
NatStr(n) == IF n < 10 THEN <<DigitChar(n)>>
             ELSE NatStr(n \div 10) \o <<DigitChar(n % 10)>>

RECURSIVE StripZeros(_)
StripZeros(s) == IF s # <<>> /\ s[Len(s)] = "0"
                 THEN StripZeros(SubSeq(s, 1, Len(s) - 1)) ELSE s

\* repr(float), as json.dumps writes it: the shortest decimal that reads back
\* as the same float, with at least one decimal
FloatRepr(milli) ==
    LET frac == StripZeros(<<DigitChar((Abs(milli) \div 100) % 10),
                             DigitChar((Abs(milli) \div 10) % 10),
                             DigitChar(Abs(milli) % 10)>>)
    IN  (IF milli < 0 THEN <<"-">> ELSE <<>>)
        \o NatStr(Abs(milli) \div 1000) \o <<".">>
        \o (IF frac = <<>> THEN <<"0">> ELSE frac)

\* Decimal.quantize(Decimal("0.01"), rounding=ROUND_HALF_UP): the sign and the
\* hundredths; a half is rounded away from zero and a zero keeps its sign
Quantize(milli) == [neg |-> milli < 0, cents |-> (Abs(milli) + 5) \div 10]

\* str() of a Decimal with exponent -2
DecimalStr(d) ==
    (IF d.neg THEN <<"-">> ELSE <<>>)
    \o NatStr(d.cents \div 100) \o <<".">>
    \o <<DigitChar((d.cents \div 10) % 10), DigitChar(d.cents % 10)>>

\* jsonify of a Python value
Jsonify(v) == IF v.kind = "float" THEN JsonNumber(FloatRepr(v.milli)) ELSE v

\* RideExtraSchema.price on dump: fields.Decimal(as_string=True, places=2,
\* rounding=ROUND_HALF_UP) makes Decimal(str(value)), quantizes and writes str
RideExtraPriceDump(v) == JsonString(DecimalStr(Quantize(v.milli)))

\* Transaction.serialize: transactions.amount is a Float column
TransactionSerialize(t) ==
    [id |-> t.id, user_id |-> t.user_id, ride_id |-> t.ride_id,
     amount |-> Float(t.amount), type |-> t.type, currency |-> t.currency]

\* jsonify(transaction.serialize())
SerializeTransaction(id) ==
    /\ \E t \in transactions : t.id = id
    /\ LET t == CHOOSE t \in transactions : t.id = id
           dict == TransactionSerialize(t)
       IN  last' = [Reply("serialize_transaction", 438, 200, "transaction") EXCEPT
                      !.uid = id,
                      !.json = {[dict EXCEPT
                                   !.amount = Jsonify(dict.amount)]}]
    /\ UNCHANGED <<users, next_id, inflight, now, outbox, minted, env, catalog, accepted>>

\* jsonify(RideExtraSchema().dump(extra)) of a RideExtra whose price is the
\* float `milli` thousandths
DumpRideExtra(milli) ==
    /\ last' = [Reply("dump_ride_extra", 22, 200, "extra") EXCEPT
                  !.uid = milli,
                  !.json = {[name |-> "extra", amount |-> RideExtraPriceDump(Float(milli))]}]
    /\ UNCHANGED <<users, next_id, inflight, now, outbox, minted, env, catalog, accepted>>

InitMoney ==
    /\ Registered
    /\ EmptyCatalog
    /\ env = Env(TRUE, TRUE, TRUE)

NextMoney ==
    \/ \E a \in Amounts : RecordTransaction(1, 0, a)
    \/ \E id \in 1..MaxTransactions : SerializeTransaction(id)
    \/ \E a \in Amounts : DumpRideExtra(a)

SpecMoney == InitMoney /\ [][NextMoney]_vars

\* the amount the last response is about, in thousandths
ShownAmount ==
    IF last.op = "dump_ride_extra" THEN last.uid
    ELSE (CHOOSE t \in transactions : t.id = last.uid).amount

\* C23: a monetary amount is serialized as a string with exactly two decimal
\* places, rounded half-up: 19.999 serializes as "20.00", and every amount
\* with up to three decimal places as the amount rounded half-up to
\* hundredths.
C23_AmountsSerializedAsTwoPlaceStrings ==
    last.op \in {"serialize_transaction", "dump_ride_extra"} =>
        \A v \in last.json :
            /\ v.amount.kind = "string"
            /\ v.amount.text = DecimalStr(Quantize(ShownAmount))
            /\ ShownAmount = 19999 => v.amount.text = <<"2", "0", ".", "0", "0">>

-----------------------------------------------------------------------------
(* User.serialize and Customer.serialize, as api/models.py has them. The    *)
(* handlers of routes.py above are modelled with the dict that the literal  *)
(* of lines 72-81 denotes (serialize); here the call itself is modelled.    *)

None == [none |-> TRUE]

Raised(e) == [raised |-> e, value |-> None]
Returned(v) == [raised |-> "", value |-> v]

\* compiling api/models.py: the def statement of line 71 ends with the dict
\* literal of lines 72-82, so line 83 is indented under no block
CompileModels == Raised("IndentationError")

\* user.serialize() of a User, Admin or Driver: no call is made of a module
\* that does not compile; the def statement of lines 71-82 by itself has the
\* dict literal as an expression statement, whose value is dropped, and
\* returns None (`base` is bound nowhere)
UserSerialize(user) ==
    IF CompileModels.raised # "" THEN CompileModels ELSE Returned(None)

\* Customer.serialize: base = super().serialize();
\* base["marketing_allowed"] = self.marketing_allowed; return base
CustomerSerialize(user) ==
    LET base == UserSerialize(user)
    IN  IF base.raised # "" THEN base
        ELSE IF base.value = None THEN Raised("TypeError")
        ELSE Returned([base.value EXCEPT
                          !.marketing_allowed = user.marketing_allowed])

\* a stored Customer: a row of users whose polymorphic identity is 'customer'
CustomerRow(i) ==
    [DriverRow(i) EXCEPT !.role = "client", !.type = "customer",
                         !.marketing_allowed = TRUE]

\* the result of the row's serialize method
SerializeResult(user) ==
    IF user.type = "customer" THEN CustomerSerialize(user) ELSE UserSerialize(user)

\* user = User.query.get(id); user.serialize(): the method of the row's class
Serialize(id) ==
    /\ GetUser(id) # NoUser
    /\ LET user == GetUser(id)
           result == SerializeResult(user)
       IN  last' = [Reply("serialize", 71, 0, result.raised) EXCEPT
                      !.uid = id,
                      !.json = IF result.value = None THEN {} ELSE {result.value}]
    /\ UNCHANGED <<users, next_id, inflight, now, outbox, minted, env, catalog, accepted>>

\* user = User.query.get(id); first = user.serialize();
\* second = user.serialize(): neither call assigns to the row
SerializeTwice(id) ==
    /\ GetUser(id) # NoUser
    /\ last' = [Reply("serialize_twice", 71, 0, SerializeResult(GetUser(id)).raised)
                  EXCEPT !.uid = id,
                         !.json = {[first |-> SerializeResult(GetUser(id)),
                                    second |-> SerializeResult(GetUser(id))]}]
    /\ UNCHANGED <<users, next_id, inflight, now, outbox, minted, env, catalog, accepted>>

-----------------------------------------------------------------------------
(* A driver and a customer, serialized between changes of their rows *)

InitSerialize ==
    /\ users = {DriverRow(1), CustomerRow(MaxUsers)}
    /\ next_id = MaxUsers + 1
    /\ inflight = [s \in Slots |-> NoReq]
    /\ now = 0
    /\ outbox = {}
    /\ minted = {}
    /\ accepted = <<>>
    /\ last = Reply("none", 0, 0, "")
    /\ env = Env(TRUE, TRUE, TRUE)
    /\ EmptyCatalog

NextSerialize ==
    \/ \E id \in 1..MaxUsers : Serialize(id)
    \/ \E id \in 1..MaxUsers : SerializeTwice(id)
    \/ \E d \in 1..MaxUsers, v \in Vehicles \cup {0} : AssignVehicleId(d, v)
    \/ \E id \in 1..MaxUsers, r \in {"driver", "admin"} : ChangeRole(id, r, "ok")

SpecSerialize == InitSerialize /\ [][NextSerialize]_vars

\* the columns of User that the rows of the model hold
BaseFields ==
    {"id", "name", "email", "role", "is_active", "marketing_allowed", "type"}

\* C24: serialize of any user variant returns a record with the base fields;
\* for a Driver the record also holds the list of its documents and its
\* vehicle, or null when it has none.
C24_SerializeReturnsTheRecord ==
    last.op = "serialize" =>
        \E v \in last.json :
            /\ BaseFields \subseteq DOMAIN v
            /\ \A f \in BaseFields : v[f] = GetUser(last.uid)[f]
            /\ GetUser(last.uid).type = "driver" =>
                   /\ {"documents", "vehicle"} \subseteq DOMAIN v
                   /\ v.vehicle = GetUser(last.uid).vehicle_id

\* C25: serialize is idempotent and free of side effects: two calls on a user
\* with no operation in between return identical records and leave the
\* stored users unchanged.
C25_SerializeTwiceSameRecord ==
    /\ [](last.op = "serialize_twice" =>
             \A v \in last.json : /\ v.first.raised = ""
                                   /\ v.first.value # None
                                   /\ v.second = v.first)
    /\ [][last'.op = "serialize_twice" => users' = users]_vars

-----------------------------------------------------------------------------
(* POST /auth/login_google, in two steps: up to the lookup of line 234, then *)
(* the insert and the response, so that requests interleave                  *)

\* lines 213-234, and lines 250-267 for a user that the lookup found
LoginGoogleCheck(slot, credential, marketing) ==
    /\ inflight[slot] = NoReq
    /\ \A t \in Slots : t < slot => inflight[t] # NoReq
    /\ IF credential.kind = "absent"
       THEN /\ last' = [Reply("login_google", 217, 422, "Validation failed") EXCEPT
                          !.errors = {"credential"}, !.credential = credential.kind]
            /\ UNCHANGED <<users, inflight>>
       ELSE IF ~env.google_client_id
       THEN /\ last' = [Reply("login_google", 223, 500,
                              "Server misconfigured: GOOGLE_CLIENT_ID missing")
                          EXCEPT !.credential = credential.kind]
            /\ UNCHANGED <<users, inflight>>
       ELSE IF credential.kind = "forged"
       THEN /\ last' = [Reply("login_google", 270, 401, "Invalid token") EXCEPT
                          !.credential = credential.kind]
            /\ UNCHANGED <<users, inflight>>
       ELSE IF credential.email = Absent
       THEN /\ last' = [Reply("login_google", 232, 401, "Invalid token: email missing")
                          EXCEPT !.credential = credential.kind]
            /\ UNCHANGED <<users, inflight>>
       ELSE LET email == Lower(credential.email)
                found == FindByEmail(email)
                old   == [found EXCEPT !.roles = assign_role(found.roles, "cliente")]
            IN  IF found = NoUser
                THEN /\ inflight' = [inflight EXCEPT ![slot] =
                                        [email |-> email, given |-> credential.email,
                                         credential |-> credential.kind,
                                         marketing |-> marketing]]
                     /\ last' = Reply("login_google_check", 235, 0, "")
                     /\ UNCHANGED users
                ELSE /\ users' = (users \ {found}) \cup {old}
                     /\ last' = [Reply("login_google", 267, 200, "Success") EXCEPT
                                   !.uid = old.id, !.email = credential.email,
                                   !.credential = credential.kind,
                                   !.token = create_token(old.email),
                                   !.json = {AuthUser(old)}]
                     /\ UNCHANGED inflight
    /\ UNCHANGED <<next_id, now, outbox, minted, env, catalog, accepted>>

\* lines 236-267 for a user that the lookup did not find: the insert, which
\* the store refuses when another request has stored the email meanwhile
LoginGoogleCommit(slot) ==
    /\ inflight[slot] # NoReq
    /\ "credential" \in DOMAIN inflight[slot]
    /\ LET req == inflight[slot]
           new == NewUser(NameAna, req.email, generate_password_hash(RandomPassword),
                          "", assign_role({}, "cliente"), req.marketing)
       IN  IF CanInsert(req.email)
           THEN /\ Cardinality(users) < MaxUsers
                /\ users' = users \cup {new}
                /\ next_id' = next_id + 1
                /\ last' = [Reply("login_google", 267, 200, "Success") EXCEPT
                              !.uid = new.id, !.email = req.given,
                              !.credential = req.credential,
                              !.token = create_token(new.email),
                              !.json = {AuthUser(new)}]
           ELSE /\ UNCHANGED <<users, next_id>>
                /\ last' = [Reply("login_google", 248, 500, "Could not create user")
                              EXCEPT !.email = req.given, !.credential = req.credential]
    /\ inflight' = [inflight EXCEPT ![slot] = NoReq]
    /\ UNCHANGED <<now, outbox, minted, env, catalog, accepted>>

-----------------------------------------------------------------------------
(* Google logins running concurrently, with and without GOOGLE_CLIENT_ID *)

GoogleLogins ==
    {[kind |-> "absent", email |-> Absent], [kind |-> "forged", email |-> EmailA],
     [kind |-> "verified", email |-> Absent]}
    \cup {[kind |-> "verified", email |-> e] : e \in {EmailA, EmailAUpper, EmailB}}

InitGoogle ==
    /\ EmptyStore
    /\ env \in {Env(TRUE, g, TRUE) : g \in BOOLEAN}

NextGoogle ==
    \/ \E sl \in Slots, c \in GoogleLogins : LoginGoogleCheck(sl, c, FALSE)
    \/ \E sl \in Slots : LoginGoogleCommit(sl)

SpecGoogle == InitGoogle /\ [][NextGoogle]_vars

\* the stored users with the email that login_google looks up for `given`
GoogleUsers(table, given) == {u \in table : u.email = Lower(given)}

\* C26: login_google with a verified email creates a user only on the first
\* login for that email: successful requests for one email, sequential or
\* concurrent, leave exactly one user with it, whose id each success
\* carries; an invalid credential is answered 401 and a missing
\* GOOGLE_CLIENT_ID 500, both without creating a user.
C26_GoogleLoginCreatesOnce ==
    /\ [](last.op = "login_google" /\ last.status = 200 =>
             /\ Cardinality(GoogleUsers(users, last.email)) = 1
             /\ \A u \in GoogleUsers(users, last.email) : u.id = last.uid)
    /\ [](\A u, w \in users : u.email = w.email => u = w)
    /\ [](last.op = "login_google" =>
             /\ last.credential = "forged" /\ env.google_client_id => last.status = 401
             /\ last.credential # "absent" /\ ~env.google_client_id => last.status = 500)
    /\ [][last'.op = "login_google" =>
             /\ {u.id : u \in users'} # {u.id : u \in users} =>
                    /\ last'.status = 200
                    /\ GoogleUsers(users, last'.email) = {}
             /\ last'.status \in {401, 500} => users' = users]_vars

\* of two requests for one email that both found no user, one created the
\* user and the other was refused by the store
C26_Witness ==
    /\ last.op = "login_google"
    /\ last.line = 248
    /\ Cardinality(GoogleUsers(users, last.email)) = 1
    /\ \A sl \in Slots : inflight[sl] = NoReq

-----------------------------------------------------------------------------
(* Email verification, for a User class with and without an attribute that  *)
(* records it (email_verified, is_email_verified or verified)               *)

InitVerify ==
    /\ Registered
    /\ EmptyCatalog
    /\ env \in {[Env(TRUE, TRUE, TRUE) EXCEPT !.verified_attr = a] : a \in BOOLEAN}

NextVerify ==
    \/ \E t \in Times : Tick(t)
    \/ \E e \in {EmailA, EmailB} : RequestPasswordReset(e, TRUE)
    \/ \E k \in Presentable : VerifyEmail(k)

SpecVerify == InitVerify /\ [][NextVerify]_vars

\* the token is an issued verification token, at most 24 hours old, of a
\* stored user
ValidVerifyToken(token, t) ==
    /\ token \in VerifyTokens(minted)
    /\ t - token.ts <= VERIFY_MAX_AGE
    /\ GetUser(token.uid) # NoUser

\* C27: verify_email with a valid, unexpired verification token confirms the
\* email of the user the token was issued for, who is recorded as verified
\* afterwards; with an invalid or expired token no user record changes.
C27_VerifyEmailRecordsTheUser ==
    /\ []((last.op = "verify_email" /\ ValidVerifyToken(last.presented, now)) =>
             /\ last.uid = last.presented.uid
             /\ GetUser(last.presented.uid).email_verified)
    /\ [][(last'.op = "verify_email" /\ ~ValidVerifyToken(last'.presented, now'))
             => users' = users]_vars

-----------------------------------------------------------------------------
(* Claims about reset_password and the session tokens *)

\* C28: reset_password rejects with 422 every payload whose password and
\* password_confirmation differ and leaves the stored password unchanged; the
\* password is changed only when the two are equal, the password has at
\* least 6 characters and the token verifies.
C28_ResetRejectsMismatch ==
    /\ [][(/\ last'.op = "reset_password"
           /\ last'.line # 310
           /\ last'.password # last'.confirmation)
              => (last'.status = 422 /\ users' = users)]_vars
    /\ [][(last'.op = "reset_password" /\ users' # users)
              => /\ last'.password = last'.confirmation
                 /\ Len(last'.password) >= 6
                 /\ ResetVerifier(last'.presented, now) # NoUser]_vars

-----------------------------------------------------------------------------
(* Resetting a password and logging in with the new and the old one *)

InitRecover ==
    /\ Registered
    /\ EmptyCatalog
    /\ env = Env(TRUE, TRUE, TRUE)

NextRecover ==
    \/ \E t \in {RESET_MAX_AGE, RESET_MAX_AGE + 1} : Tick(t)
    \/ \E e \in {EmailA, EmailB} : RequestPasswordReset(e, TRUE)
    \/ \E k \in Presentable, p \in PasswordInputs : ResetPassword(k, p, p, FALSE)
    \/ \E e \in {EmailA, EmailB}, p \in PasswordInputs : Login(e, p)

SpecRecover == InitRecover /\ [][NextRecover]_vars

-----------------------------------------------------------------------------
(* Session tokens kept by clients while accounts change *)

\* the client of the last login or register response keeps its token
KeepToken ==
    /\ last.op \in {"login", "register"}
    /\ last.status \in {200, 201}
    /\ sessions' = sessions \cup {[token |-> last.token, uid |-> last.uid]}
    /\ UNCHANGED <<users, next_id, inflight, now, outbox, minted, env, last, accepted,
                   roles_permissions, rides, transactions>>

InitHijack ==
    /\ Registered
    /\ EmptyCatalog
    /\ env = Env(TRUE, TRUE, TRUE)

NextHijack ==
    \/ \E sl \in Slots : RegisterBegin(sl, NameAna, EmailA, Secret1, Secret1, FALSE)
    \/ \E sl \in Slots : RegisterCommit(sl, TRUE)
    \/ \E e \in {EmailA, EmailB} : Login(e, Secret1)
    \/ KeepToken
    \/ \E id \in 1..MaxUsers, e \in {EmailA, EmailC} : EditAccount(id, Absent, e)
    \/ \E id \in 1..MaxUsers : DeleteUser(id)
    \/ CreateUser(NameBo, EmailA, Secret2, "client", "ok")
    \/ \E k \in sessions : Profile(Header("Bearer", Jwt(k.token.email, "")))

SpecHijack == InitHijack /\ [][NextHijack]_vars

\* C30: a session token authenticates only the user it was issued to: after
\* any sequence of login, register, edit_account, delete_user and create_user
\* requests, a token that login or register issued to user U is never
\* resolved by token_required to another user.
C30_TokenResolvesToItsUser ==
    (last.op = "profile" /\ HandlerRan) =>
        \A k \in sessions :
            k.token = create_token(last.bearer.token.email) => k.uid = last.uid

====
